---- MODULE Spec2Model ----
(***************************************************************************)
(* worktree-add: branch synchronisation and worktree provisioning.         *)
(*                                                                         *)
(* The model follows one invocation of an exported entry point:            *)
(*   runWorktreeAdd     the whole pipeline (src/cli/run-worktree-add.ts)   *)
(*   fetchRemoteBranch  the classifier on its own                          *)
(*   createWorktree     the planner on its own                             *)
(*   registerSigintHandler, resolveApps, normalizeBranchName on their own  *)
(* over a repository made of the requested branch's local ref, its         *)
(* remote-tracking ref, the branch on origin, the worktree registry, the   *)
(* destination directory and the trash.                                    *)
(*                                                                         *)
(* A commit is a number; a ref is the set of commits reachable from its    *)
(* head, and the empty set is a ref that does not exist.  A string is the  *)
(* sequence of its "/"-separated segments, so "origin/x" is                *)
(* <<"origin", "x">> and the empty string is <<"">>.  An app name and the  *)
(* app-list environment value are sequences of characters.                 *)
(***************************************************************************)
EXTENDS Integers, Sequences, FiniteSets, TLC

\* Bounds of the model.
MaxCommits == 2
MaxApps == 3
MaxSignals == 3
MaxOptionApps == 2
MaxEnvFields == 4
MaxPrefixes == 2

VARIABLES
    entry,            \* which exported function this invocation calls
    args,             \* the arguments of resolveApps, of normalizeBranchName called on its own
    options,          \* CliOptions: dryRun, offline, yes, interactive
    cwOption,         \* createWorktree's options.remoteBranchExists: "undefined", "true", "false"
    branch,           \* context.branch; <<>> before resolveWorktreeContext ran
    localRef,         \* refs/heads/<branch>
    trackingRef,      \* refs/remotes/origin/<branch>
    originRef,        \* refs/heads/<branch> on origin
    headRef,          \* HEAD of the checkout the command runs in
    registry,         \* worktree registry: path -> branch checked out there ("none": not registered)
    dest,             \* destination directory: "absent", "old" (pre-existing), "new" (the added worktree)
    trashed,          \* the pre-existing directory is in the trash
    isTty,            \* process.stdin.isTTY
    isCi,             \* process.env.CI is "true" or "1"
    pc,               \* position in the pipeline
    worktreeCreated,  \* the session flag of runWorktreeAdd
    remoteStatus,     \* the FetchRemoteBranchResult of this run, NoResult before classification
    strategy,         \* what createWorktree chose, "none" before
    handler,          \* SIGINT handler: "none", "registered", "handled", "unregistered"
    sigintPending,    \* a SIGINT reached the process and its handler has not run yet
    exitCode,         \* process exit status, -1 while running
    thrown,           \* the entry point ended by throwing to its caller
    exitMessage,      \* what exitWithMessage printed
    apps,             \* the launch list resolveApps returned
    launched,         \* what openWorktreeApps did with each app, in order
    log               \* commands run and messages emitted, in order

vars == <<entry, options, cwOption, branch, localRef, trackingRef, originRef, headRef,
          registry, dest, trashed, isTty, isCi, pc, worktreeCreated,
          remoteStatus, strategy, handler, sigintPending, exitCode, thrown, exitMessage,
          apps, launched, args, log>>

inputVars == <<entry, options, cwOption, isTty, isCi, originRef, headRef, args>>
appVars == <<apps, launched>>

Commits == 1..MaxCommits
NoRef == {}
Heads == (SUBSET Commits) \ {NoRef}
Refs == Heads \cup {NoRef}

Paths == {"dest", "other"}

\* One entry of the log.
Ev(op, arg, ok) == [op |-> op, arg |-> arg, ok |-> ok]
Git(arg, ok) == Ev("git", arg, ok)
Warn(arg) == Ev("warn", arg, TRUE)
Step(arg) == Ev("step", arg, TRUE)
Detail(arg) == Ev("detail", arg, TRUE)

Has(l, e) == \E i \in 1..Len(l) : l[i] = e
HasOp(l, op) == \E i \in 1..Len(l) : l[i].op = op
HasGit(l, arg) == \E i \in 1..Len(l) : l[i].op = "git" /\ l[i].arg = arg
Count(l, op, arg) == Cardinality({i \in 1..Len(l) : l[i].op = op /\ l[i].arg = arg})

(***************************************************************************)
(* git.ts                                                                  *)
(***************************************************************************)

StripPrefix(s, p) ==
    IF Len(s) > Len(p) /\ SubSeq(s, 1, Len(p)) = p
    THEN SubSeq(s, Len(p) + 1, Len(s))
    ELSE s

\* The four replace() calls, each anchored at the start, applied in order.
normalizeBranchName(name) ==
    StripPrefix(
      StripPrefix(
        StripPrefix(
          StripPrefix(name, <<"refs", "heads">>),
          <<"refs", "remotes", "origin">>),
        <<"remotes", "origin">>),
      <<"origin">>)

EmptyString == <<"">>

\* show-ref --verify: true iff the ref exists (every failure reads as false).
localBranchExists(local) == local # NoRef

\* ls-remote --heads origin <branch>; the catch turns every failure into false.
remoteBranchExists(queryOk, origin) ==
    [threw |-> FALSE, value |-> IF queryOk THEN origin # NoRef ELSE FALSE]

\* rev-parse of a ref: the head, or undefined (NoRef) when it does not resolve.
getLocalBranchHead(local) == local
getRemoteBranchHead(tracking) == tracking

\* git rev-list --left-right --count local...remote, as whitespace-separated
\* tokens.  A shallow or corrupted repository prints nothing usable.
RevListOutput(localHead, remoteHead, mode) ==
    IF mode = "counts"
    THEN <<Cardinality(localHead \ remoteHead), Cardinality(remoteHead \ localHead)>>
    ELSE <<>>

\* Number.parseInt of a token, with a missing or unparsable token read as 0.
getAheadBehindCounts(output) ==
    [ahead  |-> IF Len(output) >= 1 THEN output[1] ELSE 0,
     behind |-> IF Len(output) >= 2 THEN output[2] ELSE 0]

\* worktree-discovery.ts: the first registered worktree that has the branch checked out.
findWorktreeByBranchName(reg, b) ==
    IF \E p \in Paths : reg[p] = b
    THEN {CHOOSE p \in Paths : reg[p] = b}
    ELSE {}

(***************************************************************************)
(* fetch-remote-branch.ts                                                  *)
(***************************************************************************)

Undefined == <<>>

Result(status, localExists, divergence) ==
    [status |-> status, localExists |-> localExists, divergence |-> divergence]

\* No result: the call threw, or classification has not run yet.
NoResult == Result("none", FALSE, Undefined)

\* What one call of fetchRemoteBranch leaves behind: whether it threw, the
\* result it returned, the two refs afterwards and the log entries it made.
Outcome(threw, result, local, tracking, events) ==
    [threw |-> threw, result |-> result, local |-> local, tracking |-> tracking,
     events |-> events]

\* Mutant: the branch command is run with nothing to move the ref to.
FastForward_NeverMoves(local, tracking, reg, pre) ==
    Outcome(FALSE, [status |-> "exists", localExists |-> TRUE, divergence |-> <<>>],
            local, tracking,
            pre \o <<Git("worktree-list", TRUE), Detail("fast-forwarding"),
                     Step("fast-forwarding"), Git("branch-f", TRUE)>>)

\* Mutant: the ref is moved although the branch is checked out.
FastForward_MovesCheckedOut(local, tracking, reg, pre) ==
    Outcome(FALSE, Result("exists", TRUE, Undefined), tracking, tracking,
            pre \o <<Git("worktree-list", TRUE), Detail("fast-forwarding"),
                     Step("fast-forwarding"), Git("branch-f", TRUE)>>)

\* Lines 98-116: the local branch is strictly behind origin.
FastForward(local, tracking, reg, pre) ==
    IF findWorktreeByBranchName(reg, "x") # {}
    THEN Outcome(FALSE, Result("exists", TRUE, Undefined), local, tracking,
                 pre \o <<Git("worktree-list", TRUE), Warn("checked-out-skip-fast-forward")>>)
    ELSE Outcome(FALSE, Result("exists", TRUE, Undefined), tracking, tracking,
                 pre \o <<Git("worktree-list", TRUE), Detail("fast-forwarding"),
                          Step("fast-forwarding"), Git("branch-f", TRUE)>>)

\* Mutant: the fast-forward test looks at behind alone.
CompareCounts_BehindOnly(ahead, behind, local, tracking, reg, pre) ==
    IF behind > 0
    THEN FastForward(local, tracking, reg, pre)
    ELSE IF ahead = 0 /\ behind = 0
    THEN Outcome(FALSE, Result("exists", TRUE, Undefined), local, tracking,
                 pre \o <<Warn("differs-without-counts")>>)
    ELSE Outcome(FALSE, Result("exists", TRUE, Undefined), local, tracking,
                 pre \o <<Warn("local-ahead")>>)

\* Mutant: a diverged branch is kept and warned about, as an ahead one is.
CompareCounts_KeepsDiverged(ahead, behind, local, tracking, reg, pre) ==
    IF ahead = 0 /\ behind > 0
    THEN FastForward(local, tracking, reg, pre)
    ELSE IF ahead = 0 /\ behind = 0
    THEN Outcome(FALSE, Result("exists", TRUE, Undefined), local, tracking,
                 pre \o <<Warn("differs-without-counts")>>)
    ELSE Outcome(FALSE, Result("exists", TRUE, Undefined), local, tracking,
                 pre \o <<Warn("local-ahead")>>)

\* Mutant: a branch with local commits is called diverged whether or not
\* origin has commits of its own.
CompareCounts_AheadIsDiverged(ahead, behind, local, tracking, reg, pre) ==
    IF ahead = 0 /\ behind > 0
    THEN FastForward(local, tracking, reg, pre)
    ELSE IF ahead = 0 /\ behind = 0
    THEN Outcome(FALSE, Result("exists", TRUE, Undefined), local, tracking,
                 pre \o <<Warn("differs-without-counts")>>)
    ELSE Outcome(FALSE, Result("diverged", TRUE, <<ahead, behind>>), local, tracking, pre)

\* Mutant: no commits ahead is taken for being behind.
CompareCounts_ZeroIsBehind(ahead, behind, local, tracking, reg, pre) ==
    IF ahead = 0
    THEN FastForward(local, tracking, reg, pre)
    ELSE IF ahead > 0 /\ behind > 0
    THEN Outcome(FALSE, Result("diverged", TRUE, <<ahead, behind>>), local, tracking, pre)
    ELSE Outcome(FALSE, Result("exists", TRUE, Undefined), local, tracking,
                 pre \o <<Warn("local-ahead")>>)

\* Lines 98-138: the decision on the counts that rev-list reported.
CompareCounts(ahead, behind, local, tracking, reg, pre) ==
    IF ahead = 0 /\ behind > 0
    THEN FastForward(local, tracking, reg, pre)
    ELSE IF ahead = 0 /\ behind = 0
    THEN Outcome(FALSE, Result("exists", TRUE, Undefined), local, tracking,
                 pre \o <<Warn("differs-without-counts")>>)
    ELSE IF ahead > 0 /\ behind > 0
    THEN Outcome(FALSE, Result("diverged", TRUE, <<ahead, behind>>), local, tracking, pre)
    ELSE Outcome(FALSE, Result("exists", TRUE, Undefined), local, tracking,
                 pre \o <<Warn("local-ahead")>>)

\* Lines 80-96: resolve both heads and compare them.
CompareHeads(local, tracking, reg, revList, pre) ==
    LET localHead == getLocalBranchHead(local)
        remoteHead == getRemoteBranchHead(tracking)
        resolved == pre \o <<Git("rev-parse-local", localHead # NoRef),
                             Git("rev-parse-remote", remoteHead # NoRef)>>
    IN  IF localHead = NoRef \/ remoteHead = NoRef \/ localHead = remoteHead
        THEN Outcome(FALSE, Result("exists", TRUE, Undefined), local, tracking, resolved)
        ELSE IF revList = "fail"
        THEN Outcome(FALSE, Result("exists", TRUE, Undefined), local, tracking,
                     resolved \o <<Git("rev-list", FALSE), Warn("compare-failed")>>)
        ELSE LET counts == getAheadBehindCounts(RevListOutput(localHead, remoteHead, revList))
             IN  CompareCounts(counts.ahead, counts.behind, local, tracking, reg,
                               resolved \o <<Git("rev-list", TRUE),
                                             Ev("rev-list-output", revList, TRUE)>>)

\* Mutant: the dry-run test comes after the fetch and the comparison.
FetchWithLocal_DryRunFetches(local, tracking, origin, reg, dryRun, queryOk, fetchOk, revList) ==
    LET remoteExists == remoteBranchExists(queryOk, origin)
        queried == <<Git("ls-remote", queryOk)>>
    IN  IF ~remoteExists.value
        THEN Outcome(FALSE, Result("missing", TRUE, Undefined), local, tracking, queried)
        ELSE IF ~fetchOk
        THEN Outcome(FALSE, Result("unknown", TRUE, Undefined), local, tracking,
                     queried \o <<Step("fetching"), Git("fetch", FALSE),
                                  Warn("fetch-failed-using-local")>>)
        ELSE CompareHeads(local, origin, reg, revList,
                          queried \o <<Step("fetching"), Git("fetch", TRUE)>>)

\* Lines 43-139: a local branch exists.
FetchWithLocal(local, tracking, origin, reg, dryRun, queryOk, fetchOk, revList) ==
    LET remoteExists == remoteBranchExists(queryOk, origin)
        queried == <<Git("ls-remote", queryOk)>>
    IN  IF remoteExists.threw
        THEN Outcome(FALSE, Result("unknown", TRUE, Undefined), local, tracking,
                     queried \o <<Warn("query-failed-using-local")>>)
        ELSE IF ~remoteExists.value
        THEN Outcome(FALSE, Result("missing", TRUE, Undefined), local, tracking, queried)
        ELSE IF dryRun
        THEN Outcome(FALSE, Result("exists", TRUE, Undefined), local, tracking,
                     queried \o <<Step("would-fetch"), Detail("may-fast-forward"),
                                  Detail("dry-run-skips-divergence-check")>>)
        ELSE IF ~fetchOk
        THEN Outcome(FALSE, Result("unknown", TRUE, Undefined), local, tracking,
                     queried \o <<Step("fetching"), Git("fetch", FALSE),
                                  Warn("fetch-failed-using-local")>>)
        ELSE CompareHeads(local, origin, reg, revList,
                          queried \o <<Step("fetching"), Git("fetch", TRUE)>>)

\* Mutant: the fetch uses the refspec <branch>:<branch>, which also creates
\* the local branch.
FetchWithoutLocal_CreatesLocal(local, tracking, origin, dryRun, queryOk, fetchOk) ==
    IF ~queryOk \/ origin = NoRef
    THEN Outcome(FALSE, Result("missing", FALSE, Undefined), local, tracking,
                 <<Git("ls-remote", queryOk)>>)
    ELSE IF dryRun
    THEN Outcome(FALSE, Result("exists", FALSE, Undefined), local, tracking,
                 <<Git("ls-remote", queryOk), Step("would-fetch")>>)
    ELSE IF ~fetchOk
    THEN Outcome(TRUE, NoResult, local, tracking,
                 <<Git("ls-remote", queryOk), Step("fetching"), Git("fetch", FALSE)>>)
    ELSE Outcome(FALSE, Result("exists", FALSE, Undefined), origin, origin,
                 <<Git("ls-remote", queryOk), Step("fetching"), Git("fetch", TRUE)>>)

\* Mutant: a failed fetch is reported as Unknown although nothing is local.
FetchWithoutLocal_FetchFailureUnknown(local, tracking, origin, dryRun, queryOk, fetchOk) ==
    IF ~queryOk \/ origin = NoRef
    THEN Outcome(FALSE, Result("missing", FALSE, Undefined), local, tracking,
                 <<Git("ls-remote", queryOk)>>)
    ELSE IF dryRun
    THEN Outcome(FALSE, Result("exists", FALSE, Undefined), local, tracking,
                 <<Git("ls-remote", queryOk), Step("would-fetch")>>)
    ELSE IF ~fetchOk
    THEN Outcome(FALSE, Result("unknown", FALSE, Undefined), local, tracking,
                 <<Git("ls-remote", queryOk), Step("fetching"), Git("fetch", FALSE),
                   Warn("fetch-failed")>>)
    ELSE Outcome(FALSE, Result("exists", FALSE, Undefined), local, origin,
                 <<Git("ls-remote", queryOk), Step("fetching"), Git("fetch", TRUE)>>)

\* Lines 141-169: no local branch.
FetchWithoutLocal(local, tracking, origin, dryRun, queryOk, fetchOk) ==
    LET remoteExists == remoteBranchExists(queryOk, origin)
        queried == <<Git("ls-remote", queryOk)>>
    IN  IF remoteExists.threw
        THEN Outcome(FALSE, Result("unknown", FALSE, Undefined), local, tracking,
                     queried \o <<Warn("query-failed")>>)
        ELSE IF ~remoteExists.value
        THEN Outcome(FALSE, Result("missing", FALSE, Undefined), local, tracking, queried)
        ELSE IF dryRun
        THEN Outcome(FALSE, Result("exists", FALSE, Undefined), local, tracking,
                     queried \o <<Step("would-fetch")>>)
        ELSE IF ~fetchOk
        THEN Outcome(TRUE, NoResult, local, tracking,
                     queried \o <<Step("fetching"), Git("fetch", FALSE)>>)
        ELSE Outcome(FALSE, Result("exists", FALSE, Undefined), local, origin,
                     queried \o <<Step("fetching"), Git("fetch", TRUE)>>)

fetchRemoteBranch(local, tracking, origin, reg, dryRun, queryOk, fetchOk, revList) ==
    IF localBranchExists(local)
    THEN FetchWithLocal(local, tracking, origin, reg, dryRun, queryOk, fetchOk, revList)
    ELSE FetchWithoutLocal(local, tracking, origin, dryRun, queryOk, fetchOk)

(***************************************************************************)
(* create-worktree.ts                                                      *)
(***************************************************************************)

Strategies == {"ReuseLocalBranch", "TrackRemoteBranch", "CreateFromHead"}

\* Mutant: origin is looked at before the local branch.
SelectStrategy_RemoteFirst(localExists, branchExistsOnOrigin) ==
    IF branchExistsOnOrigin THEN "TrackRemoteBranch"
    ELSE IF localExists THEN "ReuseLocalBranch"
    ELSE "CreateFromHead"

\* Lines 27, 42-54 and 72: the branch of createWorktree that is taken.
SelectStrategy(localExists, branchExistsOnOrigin) ==
    IF localExists THEN "ReuseLocalBranch"
    ELSE IF branchExistsOnOrigin THEN "TrackRemoteBranch"
    ELSE "CreateFromHead"

\* git refuses "worktree add" when the destination is there or still
\* registered, when the branch to reuse is checked out elsewhere, and when
\* the start point origin/<branch> does not resolve.
WorktreeAddPossible(strat, tracking, reg, destination) ==
    /\ destination = "absent"
    /\ reg["dest"] = "none"
    /\ strat = "ReuseLocalBranch" => findWorktreeByBranchName(reg, "x") = {}
    /\ strat = "TrackRemoteBranch" => tracking # NoRef

\* The local ref after a successful "worktree add" with the given strategy.
LocalAfterAdd(strat, local, tracking, head) ==
    IF strat = "ReuseLocalBranch" THEN local
    ELSE IF strat = "TrackRemoteBranch" THEN tracking
    ELSE head

Created(threw, strat, local, reg, destination, events) ==
    [threw |-> threw, strategy |-> strat, local |-> local, registry |-> reg,
     dest |-> destination, events |-> events]

\* Lines 14-77.  remoteOption is options.remoteBranchExists; addOk tells
\* whether the worktree-add command, when it is run, succeeds.
createWorktree(local, tracking, origin, head, reg, destination, remoteOption, dryRun, queryOk, addOk) ==
    LET localExists == localBranchExists(local)
        queriedHere == ~localExists /\ remoteOption = "undefined"
        remoteExists == remoteBranchExists(queryOk, origin)
        branchExistsOnOrigin ==
            IF remoteOption = "undefined" THEN remoteExists.value
            ELSE remoteOption = "true"
        strat == SelectStrategy(localExists, branchExistsOnOrigin)
        pre == IF queriedHere THEN <<Git("ls-remote", queryOk)>> ELSE <<>>
    IN  IF queriedHere /\ remoteExists.threw
        THEN Created(TRUE, "none", local, reg, destination, pre)
        ELSE IF dryRun
        THEN Created(FALSE, strat, local, reg, destination, pre \o <<Step("would-run-" \o strat)>>)
        ELSE IF ~addOk
        THEN Created(TRUE, strat, local, reg, destination,
                     pre \o <<Step(strat), Git("worktree-add", FALSE)>>)
        ELSE Created(FALSE, strat, LocalAfterAdd(strat, local, tracking, head),
                     [reg EXCEPT !["dest"] = "x"], "new",
                     pre \o <<Step(strat), Git("worktree-add", TRUE)>>)

(***************************************************************************)
(* cleanup-worktree.ts, remove-worktree.ts                                 *)
(***************************************************************************)

Cleaned(reg, destination, events) ==
    [registry |-> reg, dest |-> destination, events |-> events]

\* Mutant: a failed removal is tried again.
cleanupWorktree_Retries(reg, destination, reason, removeOk) ==
    IF removeOk
    THEN Cleaned([reg EXCEPT !["dest"] = "none"], "absent",
                 <<Warn("cleaning-up-" \o reason), Git("worktree-remove", TRUE)>>)
    ELSE Cleaned(reg, destination,
                 <<Warn("cleaning-up-" \o reason), Git("worktree-remove", FALSE),
                   Git("worktree-remove", FALSE), Warn("cleanup-failed")>>)

\* Mutant: the removal is run without the warning before it.
cleanupWorktree_Silent(reg, destination, reason, removeOk) ==
    IF removeOk
    THEN Cleaned([reg EXCEPT !["dest"] = "none"], "absent", <<Git("worktree-remove", TRUE)>>)
    ELSE Cleaned(reg, destination, <<Git("worktree-remove", FALSE)>>)

\* Mutant: the cleanup puts the directory that was moved to the trash back
\* at the destination.
cleanupWorktree_RestoresDirectory(reg, destination, reason, removeOk) ==
    IF removeOk
    THEN Cleaned([reg EXCEPT !["dest"] = "none"], IF trashed THEN "old" ELSE "absent",
                 <<Warn("cleaning-up-" \o reason), Git("worktree-remove", TRUE)>>)
    ELSE Cleaned(reg, destination,
                 <<Warn("cleaning-up-" \o reason), Git("worktree-remove", FALSE),
                   Warn("cleanup-failed")>>)

\* cleanupWorktree: warn, then git worktree remove --force; a failure of
\* the removal is logged and swallowed.
cleanupWorktree(reg, destination, reason, removeOk) ==
    IF removeOk
    THEN Cleaned([reg EXCEPT !["dest"] = "none"], "absent",
                 <<Warn("cleaning-up-" \o reason), Git("worktree-remove", TRUE)>>)
    ELSE Cleaned(reg, destination,
                 <<Warn("cleaning-up-" \o reason), Git("worktree-remove", FALSE),
                   Warn("cleanup-failed")>>)

\* Mutant: the guard forgets the session flag.
CleanupNeeded_IgnoresCreated(created, dryRun) == ~dryRun

\* run-worktree-add.ts lines 42-45.
CleanupNeeded(created, dryRun) == ~(~created \/ dryRun)

cleanupIfNeeded(created, dryRun, reg, destination, reason, removeOk) ==
    IF CleanupNeeded(created, dryRun)
    THEN cleanupWorktree(reg, destination, reason, removeOk)
    ELSE Cleaned(reg, destination, <<>>)

(***************************************************************************)
(* The invocation                                                          *)
(***************************************************************************)

Entries == {"runWorktreeAdd", "fetchRemoteBranch", "createWorktree", "registerSigintHandler"}

\* Branch arguments: each is the branch x under some prefix, or is empty
\* once the prefixes are stripped.
RawBranches == {<<"x">>, <<"origin", "x">>, <<"refs", "heads", "x">>, <<"origin", "">>}

\* No arguments: the entry point reads the command line and the repository.
NoArgs == <<>>

Message(kind, ahead, behind, commands) ==
    [kind |-> kind, ahead |-> ahead, behind |-> behind, commands |-> commands]
NoMessage == Message("none", 0, 0, {})

\* The recovery commands the divergence message lists (lines 104-113).
RecoveryCommands ==
    {"git worktree add", "git fetch origin --prune", "git branch -m", "git branch -D",
     "worktree-add"}

\* The remote-tracking ref before the run: never fetched, or last fetched
\* when origin was at the first commit.  HEAD of the current checkout is
\* at the first commit.
TrackingAtStart == {NoRef, {1}}
HeadAtStart == {1}

CliOptions == [dryRun : BOOLEAN, offline : BOOLEAN, yes : BOOLEAN, interactive : BOOLEAN]

Init ==
    /\ entry \in Entries
    /\ options \in CliOptions
    /\ cwOption \in {"undefined", "true", "false"}
    /\ isTty \in BOOLEAN
    /\ isCi \in BOOLEAN
    /\ localRef \in Refs
    /\ trackingRef \in TrackingAtStart
    /\ originRef \in Refs
    /\ headRef = HeadAtStart
    /\ registry \in [Paths -> {"none", "x", "y"}]
    /\ registry["other"] # "y"
    /\ dest \in {"absent", "old"}
    /\ dest = "absent" => registry["dest"] = "none"
    \* What an entry point does not read is left at its default.
    /\ entry # "createWorktree" => cwOption = "undefined"
    /\ entry # "runWorktreeAdd" =>
          /\ ~options.offline /\ ~options.yes /\ ~options.interactive
          /\ ~isTty /\ ~isCi
          /\ dest = "absent"
    /\ dest = "absent" => ~options.yes /\ ~options.interactive /\ ~isTty /\ ~isCi
    /\ entry = "registerSigintHandler" =>
          /\ ~options.dryRun
          /\ localRef = NoRef /\ trackingRef = NoRef /\ originRef = NoRef
          /\ registry = [p \in Paths |-> "none"]
    /\ branch = <<>>
    /\ trashed = FALSE
    /\ pc = "start"
    /\ worktreeCreated = FALSE
    /\ remoteStatus = NoResult
    /\ strategy = "none"
    /\ handler = "none"
    /\ sigintPending = FALSE
    /\ exitCode = -1
    /\ thrown = FALSE
    /\ exitMessage = NoMessage
    /\ apps = <<>>
    /\ launched = <<>>
    /\ args = NoArgs
    /\ log = <<>>

\* exitWithMessage (git.ts 154-158): print, then process.exit(1).
ExitWithMessage(msg, events) ==
    /\ exitMessage' = msg
    /\ exitCode' = 1
    /\ pc' = "exited"
    /\ log' = log \o events \o <<Ev("exit", msg.kind, TRUE)>>

\* process.exit(code) without exitWithMessage.
ProcessExit(code, events) ==
    /\ exitCode' = code
    /\ pc' = "exited"
    /\ log' = log \o events \o <<Ev("exit", "process.exit", TRUE)>>
    /\ UNCHANGED exitMessage

\* Mutant: the finally block does not unregister the handler.
Return_KeepsHandler(events) ==
    /\ exitCode' = 0
    /\ pc' = "done"
    /\ log' = log \o events
    /\ UNCHANGED <<exitMessage, thrown, handler>>

\* runWorktreeAdd returns: the finally block unregisters the handler and
\* the process ends with status 0.
Return(events) ==
    /\ handler' = "unregistered"
    /\ exitCode' = 0
    /\ pc' = "done"
    /\ log' = log \o events
    /\ UNCHANGED <<exitMessage, thrown>>

\* Lines 144-149: catch (cleanupIfNeeded, rethrow), finally (unregister);
\* the caller (cli.ts) prints the error and sets the exit status to 1.
CatchAndRethrow(events, removeOk) ==
    LET c == cleanupIfNeeded(worktreeCreated, options.dryRun, registry, dest,
                             "due-to-failure", removeOk)
    IN  /\ registry' = c.registry
        /\ dest' = c.dest
        /\ log' = log \o events \o c.events
        /\ thrown' = TRUE
        /\ handler' = "unregistered"
        /\ exitCode' = 1
        /\ pc' = "done"
        /\ UNCHANGED exitMessage

\* Mutant: an empty branch name is not looked for.
ResolveContext_AcceptsEmpty ==
    /\ entry = "runWorktreeAdd" /\ pc = "start"
    /\ \E raw \in RawBranches :
         LET b == normalizeBranchName(raw) IN
         IF findWorktreeByBranchName(registry, "x") # {}
         THEN /\ ExitWithMessage(Message("already-checked-out", 0, 0, {}),
                                 <<Git("worktree-list", TRUE)>>)
              /\ branch' = b
              /\ UNCHANGED handler
         ELSE /\ branch' = b
              /\ handler' = "registered"
              /\ pc' = "conflict"
              /\ log' = log \o <<Git("worktree-list", TRUE)>>
              /\ UNCHANGED <<exitCode, exitMessage>>
    /\ UNCHANGED <<inputVars, appVars, sigintPending, localRef, trackingRef, registry, dest, trashed,
                   worktreeCreated, remoteStatus, strategy, thrown>>

\* Mutant: the registry is not asked where the branch is checked out.
ResolveContext_IgnoresCheckedOut ==
    /\ entry = "runWorktreeAdd" /\ pc = "start"
    /\ \E raw \in RawBranches :
         LET b == normalizeBranchName(raw) IN
         IF b = EmptyString
         THEN /\ ExitWithMessage(Message("empty-branch", 0, 0, {}), <<>>)
              /\ UNCHANGED <<branch, handler>>
         ELSE /\ branch' = b
              /\ handler' = "registered"
              /\ pc' = "conflict"
              /\ log' = log \o <<Git("worktree-list", TRUE)>>
              /\ UNCHANGED <<exitCode, exitMessage>>
    /\ UNCHANGED <<inputVars, appVars, sigintPending, localRef, trackingRef, registry, dest, trashed,
                   worktreeCreated, remoteStatus, strategy, thrown>>

\* resolve-worktree-context.ts, then run-worktree-add.ts lines 41-52.
ResolveContext ==
    /\ entry = "runWorktreeAdd" /\ pc = "start"
    /\ \E raw \in RawBranches :
         LET b == normalizeBranchName(raw) IN
         IF b = EmptyString
         THEN /\ ExitWithMessage(Message("empty-branch", 0, 0, {}), <<>>)
              /\ UNCHANGED <<branch, handler>>
         ELSE IF findWorktreeByBranchName(registry, "x") # {}
         THEN /\ ExitWithMessage(Message("already-checked-out", 0, 0, {}),
                                 <<Git("worktree-list", TRUE)>>)
              /\ branch' = b
              /\ UNCHANGED handler
         ELSE /\ branch' = b
              /\ handler' = "registered"
              /\ pc' = "conflict"
              /\ log' = log \o <<Git("worktree-list", TRUE)>>
              /\ UNCHANGED <<exitCode, exitMessage>>
    /\ UNCHANGED <<inputVars, appVars, sigintPending, localRef, trackingRef, registry, dest, trashed,
                   worktreeCreated, remoteStatus, strategy, thrown>>

(***************************************************************************)
(* destination-directory.ts: handleExistingDirectory                       *)
(***************************************************************************)

\* Mutant: without --interactive the directory is moved without asking.
Gate_NonInteractiveProceeds(dryRun, assumeYes, interactive, tty, ci) ==
    IF assumeYes THEN "proceed"
    ELSE IF ci /\ interactive /\ ~tty THEN "refuse-ci"
    ELSE IF ~interactive THEN "proceed"
    ELSE IF ~tty THEN "refuse-no-tty"
    ELSE IF dryRun THEN "would-prompt"
    ELSE "prompt"

\* Mutant: the TTY test is missing, so the prompt is shown without one.
Gate_PromptsWithoutTty(dryRun, assumeYes, interactive, tty, ci) ==
    IF assumeYes THEN "proceed"
    ELSE IF ~interactive THEN "refuse-non-interactive"
    ELSE IF dryRun THEN "would-prompt"
    ELSE "prompt"

\* Mutant: the CI refusal is tested before assumeYes.
Gate_CiBeatsYes(dryRun, assumeYes, interactive, tty, ci) ==
    IF ci /\ interactive /\ ~tty THEN "refuse-ci"
    ELSE IF assumeYes THEN "proceed"
    ELSE IF ~interactive THEN "refuse-non-interactive"
    ELSE IF ~tty THEN "refuse-no-tty"
    ELSE IF dryRun THEN "would-prompt"
    ELSE "prompt"

\* Lines 52-122: what the gate decides for an existing destination.
\*   "proceed"  go on to move the directory (real run) or to return true (dry run)
\*   "prompt"   ask for confirmation
\*   "refuse-ci", "refuse-non-interactive", "refuse-no-tty", "would-prompt"
Gate(dryRun, assumeYes, interactive, tty, ci) ==
    IF assumeYes THEN "proceed"
    ELSE IF ci /\ interactive /\ ~tty THEN "refuse-ci"
    ELSE IF ~interactive THEN "refuse-non-interactive"
    ELSE IF ~tty THEN "refuse-no-tty"
    ELSE IF dryRun THEN "would-prompt"
    ELSE "prompt"

\* Lines 39-112: up to the prompt or the move to trash.
HandleExistingDirectory ==
    /\ entry = "runWorktreeAdd" /\ pc = "conflict"
    /\ LET gate == Gate(options.dryRun, options.yes, options.interactive, isTty, isCi) IN
       IF dest = "absent"
       THEN /\ pc' = "classify"
            /\ UNCHANGED <<log, exitCode, exitMessage, handler, thrown>>
       ELSE IF options.dryRun
       THEN IF gate = "proceed"
            THEN /\ pc' = "classify"
                 /\ log' = log \o <<Step("would-move-to-trash")>>
                 /\ UNCHANGED <<exitCode, exitMessage, handler, thrown>>
            ELSE IF gate = "would-prompt"
            THEN Return(<<Step("would-prompt")>>)
            ELSE Return(<<Warn("dry-run-" \o gate)>>)
       ELSE IF gate = "proceed"
       THEN /\ pc' = "trash"
            /\ UNCHANGED <<log, exitCode, exitMessage, handler, thrown>>
       ELSE IF gate = "prompt"
       THEN /\ pc' = "confirm"
            /\ UNCHANGED <<log, exitCode, exitMessage, handler, thrown>>
       ELSE /\ ExitWithMessage(Message(gate, 0, 0, {}), <<>>)
            /\ UNCHANGED <<handler, thrown>>
    /\ UNCHANGED <<inputVars, appVars, sigintPending, branch, localRef, trackingRef, registry, dest, trashed,
                   worktreeCreated, remoteStatus, strategy>>

\* Mutant: the answer to the prompt is not looked at.
Confirm_AnswerIgnored ==
    /\ entry = "runWorktreeAdd" /\ pc = "confirm"
    /\ \E proceed \in BOOLEAN :
         /\ pc' = "trash"
         /\ log' = log \o <<Ev("confirm", IF proceed THEN "yes" ELSE "no", TRUE)>>
         /\ UNCHANGED <<exitCode, exitMessage>>
    /\ UNCHANGED <<inputVars, appVars, sigintPending, branch, localRef, trackingRef, registry, dest, trashed,
                   worktreeCreated, remoteStatus, strategy, handler, thrown>>

\* Mutant: a declined prompt is asked again.
Confirm_AsksAgain ==
    /\ entry = "runWorktreeAdd" /\ pc = "confirm"
    /\ \E proceed \in BOOLEAN :
         IF proceed
         THEN /\ pc' = "trash"
              /\ log' = log \o <<Ev("confirm", "yes", TRUE)>>
              /\ UNCHANGED <<exitCode, exitMessage>>
         ELSE /\ pc' = "confirm"
              /\ log' = IF Has(log, Ev("confirm", "no", TRUE))
                        THEN log ELSE log \o <<Ev("confirm", "no", TRUE)>>
              /\ UNCHANGED <<exitCode, exitMessage>>
    /\ UNCHANGED <<inputVars, appVars, sigintPending, branch, localRef, trackingRef, registry, dest, trashed,
                   worktreeCreated, remoteStatus, strategy, handler, thrown>>

\* Lines 113-122: the answer to the prompt.
Confirm ==
    /\ entry = "runWorktreeAdd" /\ pc = "confirm"
    /\ \E proceed \in BOOLEAN :
         IF proceed
         THEN /\ pc' = "trash"
              /\ log' = log \o <<Ev("confirm", "yes", TRUE)>>
              /\ UNCHANGED <<exitCode, exitMessage>>
         ELSE ProcessExit(0, <<Ev("confirm", "no", TRUE), Ev("print", "operation-cancelled", TRUE)>>)
    /\ UNCHANGED <<inputVars, appVars, sigintPending, branch, localRef, trackingRef, registry, dest, trashed,
                   worktreeCreated, remoteStatus, strategy, handler, thrown>>

\* Variants of the move to trash, for the mutants below: the directory is
\* removed for good instead of moved to the trash (recoverable = FALSE), or
\* a failed move is logged and the run goes on (trashFailureFatal = FALSE).
MoveToTrashVariant(recoverable, trashFailureFatal) ==
    /\ entry = "runWorktreeAdd" /\ pc = "trash"
    /\ \E listOk \in BOOLEAN, trashOk \in BOOLEAN, pruneOk \in BOOLEAN :
         LET shouldPruneWorktree == listOk /\ registry["dest"] # "none"
             listed == <<Git("worktree-list", listOk)>> \o
                       (IF listOk THEN <<>> ELSE <<Detail("worktree-list-failed")>>) \o
                       <<Step("moving-to-trash")>>
             moved == listed \o
                      (IF trashOk
                       THEN <<Ev("trash", "dest", TRUE), Ev("success", "moved-to-trash", TRUE)>>
                       ELSE <<Ev("trash", "dest", FALSE), Detail("error-details")>>)
         IN  /\ dest' = IF trashOk THEN "absent" ELSE dest
             /\ trashed' = (trashOk /\ recoverable)
             /\ IF ~trashOk /\ trashFailureFatal
                THEN /\ ExitWithMessage(Message("trash-failed", 0, 0, {}), moved)
                     /\ UNCHANGED registry
                ELSE IF ~shouldPruneWorktree
                THEN /\ pc' = "classify"
                     /\ log' = log \o moved
                     /\ UNCHANGED <<registry, exitCode, exitMessage>>
                ELSE IF ~pruneOk
                THEN /\ ExitWithMessage(Message("prune-failed", 0, 0, {}),
                                        moved \o <<Detail("pruning"), Git("worktree-prune", FALSE),
                                                   Detail("error-details")>>)
                     /\ UNCHANGED registry
                ELSE /\ registry' = [registry EXCEPT !["dest"] = "none"]
                     /\ pc' = "classify"
                     /\ log' = log \o moved \o <<Detail("pruning"), Git("worktree-prune", TRUE)>>
                     /\ UNCHANGED <<exitCode, exitMessage>>
    /\ UNCHANGED <<inputVars, appVars, sigintPending, branch, localRef, trackingRef,
                   worktreeCreated, remoteStatus, strategy, handler, thrown>>

\* Mutant: the directory is deleted instead of moved to the trash.
MoveToTrash_Deletes == MoveToTrashVariant(FALSE, TRUE)

\* Mutant: a failed move to trash is logged and the run goes on.
MoveToTrash_FailureNotFatal == MoveToTrashVariant(TRUE, FALSE)

\* Lines 124-176: look the destination up in the registry, move it to
\* trash, prune the stale registration.
MoveToTrash ==
    /\ entry = "runWorktreeAdd" /\ pc = "trash"
    /\ \E listOk \in BOOLEAN, trashOk \in BOOLEAN, pruneOk \in BOOLEAN :
         LET shouldPruneWorktree == listOk /\ registry["dest"] # "none"
             listed == <<Git("worktree-list", listOk)>> \o
                       (IF listOk THEN <<>> ELSE <<Detail("worktree-list-failed")>>) \o
                       <<Step("moving-to-trash")>>
         IN  IF ~trashOk
             THEN /\ ExitWithMessage(Message("trash-failed", 0, 0, {}),
                                     listed \o <<Ev("trash", "dest", FALSE), Detail("error-details")>>)
                  /\ UNCHANGED <<dest, trashed, registry>>
             ELSE IF ~shouldPruneWorktree
             THEN /\ dest' = "absent"
                  /\ trashed' = TRUE
                  /\ pc' = "classify"
                  /\ log' = log \o listed \o <<Ev("trash", "dest", TRUE), Ev("success", "moved-to-trash", TRUE)>>
                  /\ UNCHANGED <<registry, exitCode, exitMessage>>
             ELSE IF ~pruneOk
             THEN /\ dest' = "absent"
                  /\ trashed' = TRUE
                  /\ ExitWithMessage(Message("prune-failed", 0, 0, {}),
                                     listed \o <<Ev("trash", "dest", TRUE), Ev("success", "moved-to-trash", TRUE),
                                                 Detail("pruning"), Git("worktree-prune", FALSE),
                                                 Detail("error-details")>>)
                  /\ UNCHANGED registry
             ELSE /\ dest' = "absent"
                  /\ trashed' = TRUE
                  /\ registry' = [registry EXCEPT !["dest"] = "none"]
                  /\ pc' = "classify"
                  /\ log' = log \o listed \o <<Ev("trash", "dest", TRUE), Ev("success", "moved-to-trash", TRUE),
                                               Detail("pruning"), Git("worktree-prune", TRUE)>>
                  /\ UNCHANGED <<exitCode, exitMessage>>
    /\ UNCHANGED <<inputVars, appVars, sigintPending, branch, localRef, trackingRef,
                   worktreeCreated, remoteStatus, strategy, handler, thrown>>

(***************************************************************************)
(* run-worktree-add.ts                                                     *)
(***************************************************************************)

RevListModes == {"counts", "empty", "fail"}

\* git.ts lines 31-35: every git command is run with spawnSync, which
\* blocks the event loop.  A SIGINT that reaches the process meanwhile
\* stays pending: its handler can run only once the pipeline awaits I/O.
SigintDuringSyncCommand ==
    \E arrives \in BOOLEAN : sigintPending' = (sigintPending \/ arrives)

\* Lines 84-88: origin unknown, nothing local, and no --offline.
AmbiguousWithoutOffline(result, offline) ==
    result.status = "unknown" /\ ~result.localExists /\ ~offline

\* Mutant: the divergence check is left out.
IsDiverged_Never(result) == FALSE

\* Line 95.
IsDiverged(result) == result.status = "diverged"

\* Lines 68-115: classify, and stop on the fatal results.
Classify ==
    /\ entry = "runWorktreeAdd" /\ pc = "classify"
    /\ \E queryOk \in BOOLEAN, fetchOk \in BOOLEAN, revList \in RevListModes :
         LET o == fetchRemoteBranch(localRef, trackingRef, originRef, registry,
                                    options.dryRun, queryOk, fetchOk, revList)
         IN  /\ localRef' = o.local
             /\ trackingRef' = o.tracking
             /\ IF o.threw
                THEN /\ ExitWithMessage(Message("fetch-failed", 0, 0, {}), o.events)
                     /\ UNCHANGED remoteStatus
                ELSE IF AmbiguousWithoutOffline(o.result, options.offline)
                THEN /\ ExitWithMessage(Message("unreachable-no-local", 0, 0, {}), o.events)
                     /\ remoteStatus' = o.result
                ELSE IF IsDiverged(o.result)
                THEN /\ ExitWithMessage(Message("diverged", o.result.divergence[1],
                                                o.result.divergence[2], RecoveryCommands),
                                        o.events)
                     /\ remoteStatus' = o.result
                ELSE /\ remoteStatus' = o.result
                     /\ pc' = "create"
                     /\ log' = log \o o.events
                     /\ UNCHANGED <<exitCode, exitMessage>>
    /\ SigintDuringSyncCommand
    /\ UNCHANGED <<inputVars, appVars, branch, registry, dest, trashed,
                   worktreeCreated, strategy, handler, thrown>>

\* Mutant: everything but Unknown counts as existing on origin.
RemoteBranchExistsOption_NotUnknown(result) ==
    IF result.status # "unknown" THEN "true" ELSE "false"

\* Line 118.
RemoteBranchExistsOption(result) == IF result.status = "exists" THEN "true" ELSE "false"

\* Mutant: the session flag is set whether or not the run is a dry run.
CreateWorktree_FlagInDryRun ==
    /\ entry = "runWorktreeAdd" /\ pc = "create"
    /\ \E addOk \in BOOLEAN :
         LET c == createWorktree(localRef, trackingRef, originRef, headRef, registry, dest,
                                 RemoteBranchExistsOption(remoteStatus), options.dryRun,
                                 TRUE, addOk)
         IN  /\ addOk => WorktreeAddPossible(c.strategy, trackingRef, registry, dest)
             /\ strategy' = c.strategy
             /\ IF c.threw
                THEN /\ CatchAndRethrow(c.events, TRUE)
                     /\ UNCHANGED <<localRef, worktreeCreated>>
                ELSE /\ localRef' = c.local
                     /\ registry' = c.registry
                     /\ dest' = c.dest
                     /\ worktreeCreated' = TRUE
                     /\ pc' = "copy"
                     /\ log' = log \o c.events
                     /\ UNCHANGED <<exitCode, exitMessage, handler, thrown>>
    /\ SigintDuringSyncCommand
    /\ UNCHANGED <<inputVars, appVars, branch, trackingRef, trashed, remoteStatus>>

\* Lines 117-126, and the catch of lines 144-149 when the command fails.
CreateWorktree ==
    /\ entry = "runWorktreeAdd" /\ pc = "create"
    /\ \E addOk \in BOOLEAN :
         LET c == createWorktree(localRef, trackingRef, originRef, headRef, registry, dest,
                                 RemoteBranchExistsOption(remoteStatus), options.dryRun,
                                 TRUE, addOk)
         IN  /\ addOk => WorktreeAddPossible(c.strategy, trackingRef, registry, dest)
             /\ strategy' = c.strategy
             /\ IF c.threw
                THEN /\ CatchAndRethrow(c.events, TRUE)
                     /\ UNCHANGED <<localRef, worktreeCreated>>
                ELSE /\ localRef' = c.local
                     /\ registry' = c.registry
                     /\ dest' = c.dest
                     /\ worktreeCreated' = ~options.dryRun
                     /\ pc' = "copy"
                     /\ log' = log \o c.events
                     /\ UNCHANGED <<exitCode, exitMessage, handler, thrown>>
    /\ SigintDuringSyncCommand
    /\ UNCHANGED <<inputVars, appVars, branch, trackingRef, trashed, remoteStatus>>

\* Mutant: the untracked files are copied before the branch is classified
\* and the worktree created.
CopyUntrackedFiles_BeforeCreate ==
    /\ entry = "runWorktreeAdd" /\ pc = "classify"
    /\ \E ok \in BOOLEAN, removeOk \in BOOLEAN :
         IF ok
         THEN /\ pc' = "setup"
              /\ log' = log \o <<Ev("copy", IF options.dryRun THEN "would-copy" ELSE "copied", TRUE)>>
              /\ UNCHANGED <<registry, dest, exitCode, exitMessage, handler, thrown>>
         ELSE CatchAndRethrow(<<Ev("copy", "failed", FALSE)>>, removeOk)
    /\ UNCHANGED <<inputVars, appVars, sigintPending, branch, localRef, trackingRef, trashed,
                   worktreeCreated, remoteStatus, strategy>>

\* Lines 128-131: copyUntrackedFiles, which may throw.
CopyUntrackedFiles ==
    /\ entry = "runWorktreeAdd" /\ pc = "copy"
    /\ \E ok \in BOOLEAN, removeOk \in BOOLEAN :
         IF ok
         THEN /\ pc' = "setup"
              /\ log' = log \o <<Ev("copy", IF options.dryRun THEN "would-copy" ELSE "copied", TRUE)>>
              /\ UNCHANGED <<registry, dest, exitCode, exitMessage, handler, thrown>>
         ELSE CatchAndRethrow(<<Ev("copy", "failed", FALSE)>>, removeOk)
    /\ UNCHANGED <<inputVars, appVars, sigintPending, branch, localRef, trackingRef, trashed,
                   worktreeCreated, remoteStatus, strategy>>

\* package-manager.ts lines 77-82: installDependencies(cwd) detects the
\* package manager and runs its install command; it takes no options, so
\* the { dryRun, logger } that setupProject passes is not looked at.
installDependencies(ok) ==
    [threw |-> ~ok,
     events |-> IF ok THEN <<Ev("setup", "installed", TRUE)>>
                ELSE <<Ev("setup", "failed", FALSE)>>]

\* setup.ts lines 20-54: nothing to do without a package.json in the
\* destination; otherwise install the dependencies.  dryRun is handed to
\* installDependencies and otherwise gates only the typegen step of a
\* Next.js project, which is folded into the outcome of the install.
setupProject(hasPackageJson, dryRun, ok) ==
    IF ~hasPackageJson
    THEN [threw |-> FALSE, events |-> <<>>]
    ELSE installDependencies(ok)

\* Line 133: setupProject, which may throw.  A destination that is not
\* there has no package.json.
SetupProject ==
    /\ entry = "runWorktreeAdd" /\ pc = "setup"
    /\ ~sigintPending
    /\ \E hasPackageJson \in BOOLEAN, ok \in BOOLEAN, removeOk \in BOOLEAN :
         LET s == setupProject(hasPackageJson, options.dryRun, ok) IN
         /\ dest = "absent" => ~hasPackageJson
         /\ IF ~s.threw
            THEN /\ pc' = "apps"
                 /\ log' = log \o s.events
                 /\ UNCHANGED <<registry, dest, exitCode, exitMessage, handler, thrown>>
            ELSE CatchAndRethrow(s.events, removeOk)
    /\ UNCHANGED <<inputVars, appVars, sigintPending, branch, localRef, trackingRef, trashed,
                   worktreeCreated, remoteStatus, strategy>>

(***************************************************************************)
(* app/resolve-apps.ts, app/get-unsafe-app-name-reason.ts,                 *)
(* cli/open-worktree-apps.ts                                               *)
(***************************************************************************)

\* An optional value: options.app, process.env.WORKTREE_ADD_APP.
Absent == [given |-> FALSE, value |-> <<>>]
Given(v) == [given |-> TRUE, value |-> v]

SeqsUpTo(S, n) == UNION {[1..k -> S] : k \in 0..n}

\* String.prototype.trim, on blanks.
RECURSIVE TrimStart(_)
TrimStart(s) == IF s # <<>> /\ Head(s) = " " THEN TrimStart(Tail(s)) ELSE s
RECURSIVE TrimEnd(_)
TrimEnd(s) == IF s # <<>> /\ s[Len(s)] = " " THEN TrimEnd(SubSeq(s, 1, Len(s) - 1)) ELSE s
Trim(s) == TrimEnd(TrimStart(s))

\* String.prototype.split(","): the fields between the commas.
RECURSIVE Split(_)
Split(s) ==
    IF \E i \in 1..Len(s) : s[i] = ","
    THEN LET i == CHOOSE k \in 1..Len(s) : s[k] = "," /\ \A j \in 1..(k - 1) : s[j] # ","
         IN  <<SubSeq(s, 1, i - 1)>> \o Split(SubSeq(s, i + 1, Len(s)))
    ELSE <<s>>

\* The string whose fields are these, for writing environment values.
RECURSIVE Join(_)
Join(fields) ==
    IF Len(fields) = 1 THEN fields[1]
    ELSE fields[1] \o <<",">> \o Join(Tail(fields))

\* .map((app) => app.trim()).filter(Boolean)
TrimAndFilter(names) ==
    SelectSeq([i \in 1..Len(names) |-> Trim(names[i])], LAMBDA a : a # <<>>)

\* Mutant: a repeated name stays at its last place.
RECURSIVE dedupePreserveOrder_KeepsLast(_)
dedupePreserveOrder_KeepsLast(list) ==
    IF list = <<>> THEN <<>>
    ELSE LET rest == dedupePreserveOrder_KeepsLast(Tail(list))
         IN  IF \E i \in 1..Len(rest) : rest[i] = Head(list)
             THEN rest
             ELSE <<Head(list)>> \o rest

\* resolve-apps.ts lines 6-15.
RECURSIVE dedupePreserveOrder(_)
dedupePreserveOrder(list) ==
    IF list = <<>> THEN <<>>
    ELSE LET deduped == dedupePreserveOrder(SubSeq(list, 1, Len(list) - 1))
             app == list[Len(list)]
         IN  IF \E i \in 1..Len(deduped) : deduped[i] = app
             THEN deduped
             ELSE Append(deduped, app)

\* Mutant: an explicit empty --app falls back to the environment.
resolveApps_EmptyOptionUsesEnvironment(optionApps, environmentApps) ==
    LET normalizedOptionApps ==
            IF optionApps.given THEN TrimAndFilter(optionApps.value) ELSE <<>>
        normalized == IF environmentApps.given THEN Trim(environmentApps.value) ELSE <<>>
    IN  IF optionApps.given /\ normalizedOptionApps # <<>>
        THEN dedupePreserveOrder(normalizedOptionApps)
        ELSE IF normalized # <<>>
        THEN dedupePreserveOrder(TrimAndFilter(Split(normalized)))
        ELSE <<>>

\* resolve-apps.ts lines 17-46.
resolveApps(optionApps, environmentApps) ==
    LET hasExplicitEmptyOption ==
            /\ optionApps.given
            /\ \E i \in 1..Len(optionApps.value) : optionApps.value[i] = <<>>
        normalizedOptionApps ==
            IF optionApps.given THEN TrimAndFilter(optionApps.value) ELSE <<>>
        normalized == IF environmentApps.given THEN Trim(environmentApps.value) ELSE <<>>
    IN  IF optionApps.given /\ normalizedOptionApps # <<>>
        THEN dedupePreserveOrder(normalizedOptionApps)
        ELSE IF optionApps.given /\ hasExplicitEmptyOption
        THEN <<>>
        ELSE IF normalized # <<>>
        THEN dedupePreserveOrder(TrimAndFilter(Split(normalized)))
        ELSE <<>>

\* get-unsafe-app-name-reason.ts: the reason a name is refused, "none"
\* for undefined.
ControlCharacters == {"\t", "\n"}
\* The grave accent (U+0060), written by name.
Backtick == "U+0060"
Includes(s, c) == \E i \in 1..Len(s) : s[i] = c
getUnsafeAppNameReason(appName) ==
    IF Includes(appName, ";") THEN "contains ;"
    ELSE IF Includes(appName, "|") THEN "contains |"
    ELSE IF Includes(appName, Backtick) THEN "contains backtick"
    ELSE IF \E i \in 1..Len(appName) : appName[i] \in ControlCharacters
    THEN "contains control characters"
    ELSE "none"

\* What one app's callback does (open-worktree-apps.ts lines 15-45).
Launch(app, fails, dryRun) ==
    IF getUnsafeAppNameReason(app) # "none"
    THEN [outcome |-> "skipped", events |-> <<Warn("unsafe-app")>>]
    ELSE IF dryRun
    THEN [outcome |-> "would-open", events |-> <<Step("would-open")>>]
    ELSE IF fails
    THEN [outcome |-> "failed",
          events |-> <<Step("opening"), Ev("open", "app", FALSE), Warn("open-failed")>>]
    ELSE [outcome |-> "opened", events |-> <<Step("opening"), Ev("open", "app", TRUE)>>]

\* The first n callbacks; failing holds the places in the list of the apps
\* whose launch fails.  With isolate, a failed launch stays in its own
\* callback.
RECURSIVE LaunchUpTo(_, _, _, _, _)
LaunchUpTo(list, n, failing, dryRun, isolate) ==
    IF n = 0 THEN [launched |-> <<>>, events |-> <<>>]
    ELSE LET before == LaunchUpTo(list, n - 1, failing, dryRun, isolate)
             l == Launch(list[n], n \in failing, dryRun)
         IN  IF ~isolate /\ \E i \in 1..Len(before.launched) : before.launched[i].outcome = "failed"
             THEN before
             ELSE [launched |-> Append(before.launched, [app |-> list[n], outcome |-> l.outcome]),
                   events |-> before.events \o l.events]

\* Mutant: the first failed launch ends the stage.
openWorktreeApps_StopsAtFirstFailure(list, failing, dryRun) ==
    LaunchUpTo(list, Len(list), failing, dryRun, FALSE)

\* open-worktree-apps.ts lines 6-47: one callback per app, all settled
\* before the function returns; it does not throw.
openWorktreeApps(list, failing, dryRun) ==
    LaunchUpTo(list, Len(list), failing, dryRun, TRUE)

\* The --app values of a run: absent, or the first names of a list that
\* holds a name the filter refuses, two it lets through, and a repeated
\* one; the environment names no app or one.
LaunchOrder == <<<<"a", ";">>, <<"a">>, <<"b">>, <<"a">>>>
LaunchOptions ==
    {Absent} \cup {Given(SubSeq(LaunchOrder, 1, k)) : k \in 0..MaxApps}
LaunchEnvironments == {Absent, Given(<<"b">>)}

\* Lines 135-143 for every --app value, environment value and set of
\* failing launches: the list resolveApps returns and what openWorktreeApps
\* does with it.
ResolveAndOpen ==
    [dryRun \in BOOLEAN |->
        UNION {
            LET list == resolveApps(optionApps, environmentApps) IN
            {[apps |-> list, opened |-> openWorktreeApps(list, failing, dryRun)] :
                failing \in {f \in SUBSET (1..Len(list)) :
                               \A i \in f : Launch(list[i], TRUE, dryRun).outcome = "failed"}}
            : optionApps \in LaunchOptions, environmentApps \in LaunchEnvironments}]

\* Lines 135-143, then the return through finally.
OpenWorktreeApps ==
    /\ entry = "runWorktreeAdd" /\ pc = "apps"
    /\ \E r \in ResolveAndOpen[options.dryRun] :
            /\ apps' = r.apps
            /\ launched' = r.opened.launched
            /\ Return(r.opened.events)
    /\ UNCHANGED <<inputVars, sigintPending, branch, localRef, trackingRef, registry, dest, trashed,
                   worktreeCreated, remoteStatus, strategy>>

\* The pipeline is suspended (awaiting) in these positions; everything
\* between two of them runs without yielding to the event loop.
SuspensionPoints == {"conflict", "confirm", "trash", "copy", "setup", "apps"}

\* Mutant: the handled flag is not looked at.
sigintHandler_NoGuard(handled, cleanupEvents) ==
    [ranCleanup |-> TRUE,
     events |-> <<Warn("received-sigint")>> \o cleanupEvents \o
                <<Ev("print", "may-be-incomplete", TRUE), Ev("exit", "process.exit", TRUE)>>]

\* register-sigint-handler.ts lines 13-26: the handler.  handled is the
\* flag before the call (it is set afterwards in either case);
\* cleanupEvents is what options.onCleanup does.  Both paths end in
\* process.exit(130), which does not return.
sigintHandler(handled, cleanupEvents) ==
    IF handled
    THEN [ranCleanup |-> FALSE, events |-> <<Ev("exit", "process.exit", TRUE)>>]
    ELSE [ranCleanup |-> TRUE,
          events |-> <<Warn("received-sigint")>> \o cleanupEvents \o
                     <<Ev("print", "may-be-incomplete", TRUE), Ev("exit", "process.exit", TRUE)>>]

\* The handler runs while the pipeline awaits: for a SIGINT that arrives
\* then, or for one that was pending.  onCleanup is cleanupIfNeeded
\* (run-worktree-add.ts lines 46-52); the process ends with status 130.
\* After runWorktreeAdd returned or threw the event loop runs once more
\* before the process ends, so a handler still registered then would run
\* too.
Sigint ==
    /\ entry = "runWorktreeAdd"
    /\ handler = "registered"
    /\ pc \in SuspensionPoints \cup {"done"}
    /\ \E removeOk \in BOOLEAN :
         LET c == cleanupIfNeeded(worktreeCreated, options.dryRun, registry, dest,
                                  "after-interruption", removeOk)
             h == sigintHandler(FALSE, c.events)
         IN  /\ registry' = IF h.ranCleanup THEN c.registry ELSE registry
             /\ dest' = IF h.ranCleanup THEN c.dest ELSE dest
             /\ handler' = "handled"
             /\ sigintPending' = FALSE
             /\ exitCode' = 130
             /\ pc' = "exited"
             /\ log' = log \o h.events
    /\ UNCHANGED <<inputVars, appVars, branch, localRef, trackingRef, trashed,
                   worktreeCreated, remoteStatus, strategy, thrown, exitMessage>>

(***************************************************************************)
(* The classifier and the planner called on their own                      *)
(***************************************************************************)

CallFetchRemoteBranch ==
    /\ entry = "fetchRemoteBranch" /\ pc = "start"
    /\ \E queryOk \in BOOLEAN, fetchOk \in BOOLEAN, revList \in RevListModes :
         LET o == fetchRemoteBranch(localRef, trackingRef, originRef, registry,
                                    options.dryRun, queryOk, fetchOk, revList)
         IN  /\ localRef' = o.local
             /\ trackingRef' = o.tracking
             /\ remoteStatus' = o.result
             /\ thrown' = o.threw
             /\ log' = log \o o.events
    /\ pc' = "done"
    /\ UNCHANGED <<inputVars, appVars, sigintPending, branch, registry, dest, trashed, worktreeCreated,
                   strategy, handler, exitCode, exitMessage>>

CallCreateWorktree ==
    /\ entry = "createWorktree" /\ pc = "start"
    /\ \E queryOk \in BOOLEAN, addOk \in BOOLEAN :
         LET c == createWorktree(localRef, trackingRef, originRef, headRef, registry, dest,
                                 cwOption, options.dryRun, queryOk, addOk)
         IN  /\ addOk => WorktreeAddPossible(c.strategy, trackingRef, registry, dest)
             /\ strategy' = c.strategy
             /\ localRef' = c.local
             /\ registry' = c.registry
             /\ dest' = c.dest
             /\ thrown' = c.threw
             /\ log' = log \o c.events
    /\ pc' = "done"
    /\ UNCHANGED <<inputVars, appVars, sigintPending, branch, trackingRef, trashed, worktreeCreated,
                   remoteStatus, handler, exitCode, exitMessage>>

\* register-sigint-handler.ts lines 9-32 on its own: the caller registers
\* the handler with a callback of its own.
CallRegisterSigintHandler ==
    /\ entry = "registerSigintHandler" /\ pc = "start"
    /\ handler' = "registered"
    /\ pc' = "listening"
    /\ UNCHANGED <<inputVars, appVars, sigintPending, branch, localRef, trackingRef, registry, dest,
                   trashed, worktreeCreated, remoteStatus, strategy, exitCode, thrown,
                   exitMessage, log>>

\* A SIGINT is delivered to the handler.  The host keeps the process
\* alive across process.exit (the call leaves the handler without
\* returning to it), so that further signals reach the same handler.
DeliverSigint ==
    /\ entry = "registerSigintHandler" /\ pc = "listening"
    /\ handler \in {"registered", "handled"}
    /\ Count(log, "exit", "process.exit") < MaxSignals
    /\ LET h == sigintHandler(handler = "handled", <<Ev("cleanup", "onCleanup", TRUE)>>)
       IN  /\ handler' = "handled"
           /\ exitCode' = 130
           /\ log' = log \o h.events
    /\ UNCHANGED <<inputVars, appVars, sigintPending, branch, localRef, trackingRef, registry, dest,
                   trashed, worktreeCreated, remoteStatus, strategy, thrown, exitMessage, pc>>

\* Lines 29-31: the function that registerSigintHandler returned is called.
UnregisterSigintHandler ==
    /\ entry = "registerSigintHandler" /\ pc = "listening"
    /\ handler' = "unregistered"
    /\ pc' = "done"
    /\ UNCHANGED <<inputVars, appVars, sigintPending, branch, localRef, trackingRef, registry, dest,
                   trashed, worktreeCreated, remoteStatus, strategy, exitCode, thrown,
                   exitMessage, log>>

Next ==
    \/ ResolveContext
    \/ HandleExistingDirectory
    \/ Confirm
    \/ MoveToTrash
    \/ Classify
    \/ CreateWorktree
    \/ CopyUntrackedFiles
    \/ SetupProject
    \/ OpenWorktreeApps
    \/ Sigint
    \/ CallFetchRemoteBranch
    \/ CallCreateWorktree
    \/ CallRegisterSigintHandler
    \/ DeliverSigint
    \/ UnregisterSigintHandler

Spec == Init /\ [][Next]_vars

(***************************************************************************)
(* resolveApps and normalizeBranchName called on their own                 *)
(***************************************************************************)

FunctionEntries == {"resolveApps", "normalizeBranchName"}

\* --app values: up to MaxOptionApps names, empty, blank, padded or plain.
OptionNames == {<<>>, <<" ">>, <<"a">>, <<" ", "a">>, <<"b">>}
OptionAppsInputs == {Absent} \cup {Given(l) : l \in SeqsUpTo(OptionNames, MaxOptionApps)}

\* WORKTREE_ADD_APP values: unset, or up to MaxEnvFields fields between
\* commas, empty, padded or plain.
EnvFields == {<<>>, <<"a">>, <<"b">>, <<" ", "a">>}
EnvironmentAppsInputs ==
    {Absent} \cup {Given(Join(f)) : f \in SeqsUpTo(EnvFields, MaxEnvFields) \ {<<>>}}

\* Branch arguments: up to MaxPrefixes of the four prefixes, in any order
\* and with repetition, before the name x or before nothing.
Prefixes ==
    {<<"refs", "heads">>, <<"refs", "remotes", "origin">>, <<"remotes", "origin">>, <<"origin">>}
RECURSIVE Concat(_)
Concat(ss) == IF ss = <<>> THEN <<>> ELSE Head(ss) \o Concat(Tail(ss))
BranchInputs ==
    {Concat(ps) \o n : ps \in SeqsUpTo(Prefixes, MaxPrefixes), n \in {<<"x">>, <<"">>}}

FunctionInit ==
    /\ entry \in FunctionEntries
    /\ args \in IF entry = "resolveApps"
                THEN [optionApps : OptionAppsInputs, environmentApps : EnvironmentAppsInputs]
                ELSE [name : BranchInputs]
    /\ options = [dryRun |-> FALSE, offline |-> FALSE, yes |-> FALSE, interactive |-> FALSE]
    /\ cwOption = "undefined"
    /\ isTty = FALSE
    /\ isCi = FALSE
    /\ localRef = NoRef
    /\ trackingRef = NoRef
    /\ originRef = NoRef
    /\ headRef = HeadAtStart
    /\ registry = [p \in Paths |-> "none"]
    /\ dest = "absent"
    /\ branch = <<>>
    /\ trashed = FALSE
    /\ pc = "start"
    /\ worktreeCreated = FALSE
    /\ remoteStatus = NoResult
    /\ strategy = "none"
    /\ handler = "none"
    /\ sigintPending = FALSE
    /\ exitCode = -1
    /\ thrown = FALSE
    /\ exitMessage = NoMessage
    /\ apps = <<>>
    /\ launched = <<>>
    /\ log = <<>>

CallResolveApps ==
    /\ entry = "resolveApps" /\ pc = "start"
    /\ apps' = resolveApps(args.optionApps, args.environmentApps)
    /\ pc' = "done"
    /\ UNCHANGED <<inputVars, launched, sigintPending, branch, localRef, trackingRef, registry,
                   dest, trashed, worktreeCreated, remoteStatus, strategy, handler, exitCode,
                   thrown, exitMessage, log>>

CallNormalizeBranchName ==
    /\ entry = "normalizeBranchName" /\ pc = "start"
    /\ branch' = normalizeBranchName(args.name)
    /\ pc' = "done"
    /\ UNCHANGED <<inputVars, appVars, sigintPending, localRef, trackingRef, registry,
                   dest, trashed, worktreeCreated, remoteStatus, strategy, handler, exitCode,
                   thrown, exitMessage, log>>

FunctionNext ==
    \/ CallResolveApps
    \/ CallNormalizeBranchName

FunctionSpec == FunctionInit /\ [][FunctionNext]_vars

TypeOK ==
    /\ entry \in Entries
    /\ options \in CliOptions
    /\ localRef \in Refs /\ trackingRef \in Refs /\ originRef \in Refs
    /\ registry \in [Paths -> {"none", "x", "y"}]
    /\ dest \in {"absent", "old", "new"}
    /\ trashed \in BOOLEAN
    /\ worktreeCreated \in BOOLEAN
    /\ remoteStatus.status \in {"none", "exists", "missing", "unknown", "diverged"}
    /\ strategy \in Strategies \cup {"none"}
    /\ handler \in {"none", "registered", "handled", "unregistered"}
    /\ exitCode \in {-1, 0, 1, 130}
    /\ thrown \in BOOLEAN

(***************************************************************************)
(* Properties                                                              *)
(***************************************************************************)

\* The step about to be taken is a call of fetchRemoteBranch, of createWorktree.
InFetch ==
    \/ entry = "fetchRemoteBranch" /\ pc = "start"
    \/ entry = "runWorktreeAdd" /\ pc = "classify"
InCreate ==
    \/ entry = "createWorktree" /\ pc = "start"
    \/ entry = "runWorktreeAdd" /\ pc = "create"

\* The log entries a step adds.
NewEvents == SubSeq(log', Len(log) + 1, Len(log'))

WarnCount(l) == Cardinality({i \in 1..Len(l) : l[i].op = "warn"})

\* C1: in a real run of runWorktreeAdd that ends in failure, the created
\* worktree is removed after the failing step (copy, setup) when the
\* worktree-add had succeeded, and the error then reaches the caller; when
\* the failure came before a successful worktree-add, no removal is attempted.
C1_RollbackOnlyAfterRegistration ==
    (entry = "runWorktreeAdd" /\ ~options.dryRun /\ exitCode = 1) =>
        IF Has(log, Git("worktree-add", TRUE))
        THEN /\ thrown
             /\ \E i \in 1..Len(log), j \in 1..Len(log) :
                   /\ i < j
                   /\ log[i].op \in {"copy", "setup", "open"} /\ ~log[i].ok
                   /\ log[j].op = "git" /\ log[j].arg = "worktree-remove"
        ELSE ~HasGit(log, "worktree-remove")

\* C1 witness: setup failed after the worktree was added, and the worktree was removed.
C1_Witness ==
    /\ entry = "runWorktreeAdd" /\ thrown
    /\ Has(log, Git("worktree-add", TRUE))
    /\ Has(log, Ev("setup", "failed", FALSE))
    /\ Has(log, Git("worktree-remove", TRUE))
    /\ registry["dest"] = "none"

\* The conditions under which fetchRemoteBranch may move the local ref,
\* read before the call (the refs) and after it (what the call did).
FastForwardConditions ==
    /\ ~options.dryRun
    /\ localRef # NoRef
    /\ originRef # NoRef
    /\ Has(NewEvents, Git("fetch", TRUE))
    /\ trackingRef' # NoRef
    /\ localRef # trackingRef'
    /\ Has(NewEvents, Ev("rev-list-output", "counts", TRUE))
    /\ Cardinality(localRef \ trackingRef') = 0
    /\ Cardinality(trackingRef' \ localRef) > 0
    /\ findWorktreeByBranchName(registry, "x") = {}

\* C2: a call of fetchRemoteBranch runs git branch -f only under the
\* fast-forward conditions; otherwise the local ref is unchanged; and every
\* commit reachable from the local branch before the call is reachable after.
C2_ForceUpdateOnlyWhenStrictlyBehind ==
    [][InFetch =>
         /\ HasGit(NewEvents, "branch-f") => FastForwardConditions
         /\ ~HasGit(NewEvents, "branch-f") => localRef' = localRef
         /\ localRef \subseteq localRef']_vars

\* C2 witness: a fast-forward happened and the local ref gained commits.
C2_Witness ==
    /\ HasGit(log, "branch-f")
    /\ localRef = trackingRef
    /\ Cardinality(localRef) > 1

ConnectivityFailure == Has(log, Git("ls-remote", FALSE)) \/ Has(log, Git("fetch", FALSE))

\* The run stopped on one of the two fatal connectivity messages.
StoppedOnConnectivity ==
    pc = "exited" /\ exitCode = 1 /\ exitMessage.kind \in {"fetch-failed", "unreachable-no-local"}

\* C6 (as claimed): once classification has met a connectivity failure, the
\* run has stopped with status 1 if there was no local branch and --offline
\* was not given, and otherwise has gone on (with a warning when the local
\* branch exists).
C6_ConnectivityFatalOnlyWithoutLocal ==
    (entry = "runWorktreeAdd" /\ ConnectivityFailure) =>
        IF ~remoteStatus.localExists /\ ~options.offline
        THEN StoppedOnConnectivity /\ ~HasGit(log, "worktree-add")
        ELSE /\ ~StoppedOnConnectivity
             /\ remoteStatus.localExists => WarnCount(log) > 0

\* C7 (as claimed): a run creates a branch from HEAD only when the branch
\* is not local and either origin answered that it has no such branch, or
\* origin could not be reached and --offline was given.
C7_CreateFromHeadOnlyWhenConfirmedMissingOrOffline ==
    (/\ entry = "runWorktreeAdd"
     /\ strategy = "CreateFromHead"
     /\ Has(log, Git("worktree-add", TRUE))) =>
        /\ ~remoteStatus.localExists
        /\ \/ Has(log, Git("ls-remote", TRUE)) /\ originRef = NoRef
           \/ ConnectivityFailure /\ options.offline

\* C8: a run takes the tracking strategy only when the classification is
\* Exists, which means origin answered the query, has the branch, and, in a
\* real run, the fetch succeeded.
C8_TrackOnlyWhenConfirmed ==
    (entry = "runWorktreeAdd" /\ strategy = "TrackRemoteBranch") =>
        /\ remoteStatus.status = "exists"
        /\ Has(log, Git("ls-remote", TRUE))
        /\ originRef # NoRef
        /\ ~options.dryRun => Has(log, Git("fetch", TRUE)) /\ trackingRef = originRef

\* C8 witness: a real run created a tracking branch from origin.
C8_Witness ==
    /\ entry = "runWorktreeAdd" /\ ~options.dryRun
    /\ strategy = "TrackRemoteBranch"
    /\ Has(log, Git("worktree-add", TRUE))
    /\ localRef = originRef

\* What createWorktree is told, or finds out, about origin.
RemoteExistsForCreate ==
    IF entry = "runWorktreeAdd" THEN remoteStatus.status = "exists"
    ELSE IF cwOption = "undefined" THEN Has(NewEvents, Git("ls-remote", TRUE)) /\ originRef # NoRef
    ELSE cwOption = "true"

\* C9: a call of createWorktree takes ReuseLocalBranch when the branch is
\* local, else TrackRemoteBranch when it exists on origin, else
\* CreateFromHead; it runs one worktree-add in a real run and none in a
\* dry run; a successful add leaves the local ref at the local branch, the
\* remote-tracking ref, and HEAD, respectively.
C9_OneStrategyOneCommand ==
    [][InCreate =>
         /\ strategy' = IF localRef # NoRef THEN "ReuseLocalBranch"
                        ELSE IF RemoteExistsForCreate THEN "TrackRemoteBranch"
                        ELSE "CreateFromHead"
         /\ Count(NewEvents, "git", "worktree-add") = IF options.dryRun THEN 0 ELSE 1
         /\ Has(NewEvents, Git("worktree-add", TRUE)) =>
               /\ registry'["dest"] = "x"
               /\ localRef' = IF strategy' = "ReuseLocalBranch" THEN localRef
                              ELSE IF strategy' = "TrackRemoteBranch" THEN trackingRef
                              ELSE headRef
         /\ ~Has(NewEvents, Git("worktree-add", TRUE)) =>
               localRef' = localRef /\ registry' = registry]_vars

\* C9 witness: createWorktree, called without the remoteBranchExists
\* option, created a tracking branch.
C9_Witness ==
    /\ entry = "createWorktree" /\ cwOption = "undefined" /\ pc = "done"
    /\ strategy = "TrackRemoteBranch"
    /\ Has(log, Git("worktree-add", TRUE))

\* C10: the strategy a run executes is the one that the localExists and
\* the status of its RemoteSyncResult determine.
C10_StrategyFollowsClassification ==
    (entry = "runWorktreeAdd" /\ strategy # "none") =>
        strategy = IF remoteStatus.localExists THEN "ReuseLocalBranch"
                   ELSE IF remoteStatus.status = "exists" THEN "TrackRemoteBranch"
                   ELSE "CreateFromHead"

\* C10 witness: a real run classified a branch that is not local and
\* created it from origin.
C10_Witness ==
    /\ entry = "runWorktreeAdd" /\ pc = "done" /\ exitCode = 0
    /\ ~remoteStatus.localExists /\ remoteStatus.status = "exists"
    /\ strategy = "TrackRemoteBranch"
    /\ worktreeCreated

\* The run is past handleExistingDirectory: the handler was registered and
\* the conflict stage was left other than by an interrupt.
PastConflict ==
    /\ entry = "runWorktreeAdd"
    /\ handler \in {"registered", "unregistered"}
    /\ pc \notin {"start", "conflict"}

\* The user was asked, or is being asked, to confirm.
Prompted == pc = "confirm" \/ HasOp(log, "confirm")

AfterConflictStage == {"classify", "create", "copy", "setup", "apps"}

\* C11: the existing destination leaves its place only by a successful
\* move to trash, in a real run, after --yes or a confirmed prompt; while
\* it is in place no worktree-add is run, a real run does not get past
\* the conflict stage, and a dry run gets past it only with --yes.
C11_NeverSilentlyOverwritten ==
    /\ [][(dest = "old" /\ dest' # "old") =>
             /\ pc = "trash"
             /\ ~options.dryRun
             /\ options.yes \/ Has(log, Ev("confirm", "yes", TRUE))
             /\ Has(NewEvents, Ev("trash", "dest", TRUE))
             /\ dest' = "absent"]_vars
    /\ [](dest = "old" =>
             /\ ~HasGit(log, "worktree-add")
             /\ ~options.dryRun => pc \notin AfterConflictStage /\ strategy = "none"
             /\ ~options.yes => pc \notin AfterConflictStage /\ strategy = "none")

\* C11 witness: the prompt was confirmed, the directory moved to trash and
\* the worktree added in its place.
C11_Witness ==
    /\ ~options.yes /\ Has(log, Ev("confirm", "yes", TRUE))
    /\ trashed /\ dest = "new"
    /\ Has(log, Git("worktree-add", TRUE))

\* The refusals of handleExistingDirectory: a fatal message in a real run,
\* a warning and a clean return in a dry run.
RefusalKinds == {"refuse-ci", "refuse-non-interactive", "refuse-no-tty"}

Refused ==
    IF options.dryRun
    THEN /\ pc = "done" /\ exitCode = 0
         /\ \E k \in RefusalKinds : Has(log, Warn("dry-run-" \o k))
    ELSE /\ pc = "exited" /\ exitCode = 1
         /\ exitMessage.kind \in RefusalKinds

\* C12: a prompt is shown only for an existing destination in a real run
\* without --yes, with --interactive and with a TTY; without --yes, a run
\* without --interactive refuses by default and a run with --interactive
\* but no TTY refuses, both without prompting.
C12_PromptOnlyWhenInteractiveTty ==
    /\ Prompted =>
          /\ entry = "runWorktreeAdd"
          /\ dest = "old" \/ trashed
          /\ ~options.dryRun /\ ~options.yes /\ options.interactive /\ isTty
    /\ (PastConflict /\ dest = "old" /\ ~options.yes /\ (~options.interactive \/ ~isTty)) =>
          /\ Refused
          /\ ~Prompted
          /\ ~trashed /\ ~HasOp(log, "trash")
          /\ (~options.dryRun /\ ~options.interactive) =>
                exitMessage.kind = "refuse-non-interactive"
          /\ (~options.dryRun /\ options.interactive) =>
                exitMessage.kind = IF isCi THEN "refuse-ci" ELSE "refuse-no-tty"

\* C12 witness: --interactive without a TTY, outside CI, was refused in a
\* real run.
C12_Witness ==
    /\ PastConflict /\ ~options.dryRun /\ ~options.yes
    /\ options.interactive /\ ~isTty /\ ~isCi
    /\ exitMessage.kind = "refuse-no-tty" /\ exitCode = 1
    /\ dest = "old" /\ ~Prompted

\* C13: with --yes and an existing destination handleExistingDirectory
\* goes straight on, to the move to trash in a real run and to the next
\* stage in a dry run, whatever --interactive, the TTY and CI are; no
\* prompt is shown, and the move to trash is the next thing attempted.
C13_AssumeYesProceedsDirectly ==
    /\ [][(entry = "runWorktreeAdd" /\ options.yes /\ dest = "old"
            /\ pc \in {"conflict", "trash"} /\ handler' = handler) =>
             IF pc = "trash" THEN HasOp(NewEvents, "trash")
             ELSE IF options.dryRun
             THEN pc' = "classify" /\ NewEvents = <<Step("would-move-to-trash")>>
             ELSE pc' = "trash" /\ NewEvents = <<>>]_vars
    /\ []((options.yes /\ (dest = "old" \/ trashed)) => ~Prompted)

\* C13 witness: --yes with --interactive, in CI and without a TTY, moved
\* the directory to trash.
C13_Witness ==
    /\ options.yes /\ options.interactive /\ isCi /\ ~isTty
    /\ ~options.dryRun /\ trashed /\ dest = "absent"
    /\ ~Prompted /\ pc = "classify"

\* Nothing after handleExistingDirectory has run: no classification, no
\* fetch, no fast-forward, no creation.
NoLaterStage ==
    /\ remoteStatus = NoResult /\ strategy = "none" /\ ~worktreeCreated
    /\ ~HasGit(log, "ls-remote") /\ ~HasGit(log, "fetch") /\ ~HasGit(log, "branch-f")
    /\ ~HasGit(log, "worktree-add")
    /\ ~HasOp(log, "copy") /\ ~HasOp(log, "setup") /\ ~HasOp(log, "open")

\* C14: once the prompt was declined the process has ended with status 0,
\* without an error message, the directory is in place and not in the
\* trash, and no later stage has run.
C14_DeclineAbortsCleanly ==
    Has(log, Ev("confirm", "no", TRUE)) =>
        /\ pc = "exited" /\ exitCode = 0
        /\ ~thrown /\ exitMessage = NoMessage
        /\ dest = "old" /\ ~trashed /\ ~HasOp(log, "trash")
        /\ ~HasGit(log, "worktree-prune")
        /\ NoLaterStage

\* C14 witness: a registered stale destination was kept by declining.
C14_Witness ==
    /\ Has(log, Ev("confirm", "no", TRUE))
    /\ exitCode = 0 /\ dest = "old" /\ registry["dest"] = "y"
    /\ localRef # NoRef /\ originRef # NoRef /\ localRef # originRef

\* C15: the pre-existing destination directory leaves its place only into
\* the trash and stays there; after handleExistingDirectory went on past a
\* move in a real run, the directory is in the trash.
C15_TrashIsRecoverable ==
    /\ [][(dest = "old" /\ dest' # "old") => trashed']_vars
    /\ [][trashed => trashed']_vars
    /\ []((PastConflict /\ ~options.dryRun /\ pc \in AfterConflictStage \cup {"done"}
            /\ HasOp(log, "trash")) => trashed /\ dest # "old")

\* C15 witness: after a confirmed prompt the run completed and the old
\* directory is in the trash.
C15_Witness ==
    /\ Has(log, Ev("confirm", "yes", TRUE))
    /\ pc = "done" /\ exitCode = 0 /\ trashed /\ dest = "new"

\* C16: once the move to trash failed the run has ended with the failure
\* message and status 1; nothing was pruned, and no later stage has run.
C16_TrashFailureIsFatal ==
    Has(log, Ev("trash", "dest", FALSE)) =>
        /\ pc = "exited" /\ exitCode = 1
        /\ exitMessage.kind = "trash-failed"
        /\ dest = "old" /\ ~trashed
        /\ ~HasGit(log, "worktree-prune")
        /\ NoLaterStage

\* C16 witness: the move failed for a destination that is a registered
\* worktree, which stays registered.
C16_Witness ==
    /\ Has(log, Ev("trash", "dest", FALSE))
    /\ Has(log, Git("worktree-list", TRUE))
    /\ registry["dest"] = "y" /\ exitCode = 1

\* C17: the step that moves a registered destination to trash prunes the
\* registration after the move, and goes on only with the registration
\* gone; for an unregistered destination it prunes nothing; and a real run
\* never gets to worktree creation with the destination still registered.
C17_StaleRegistrationPruned ==
    /\ [][(pc = "trash" /\ Has(NewEvents, Ev("trash", "dest", TRUE))) =>
             IF registry["dest"] # "none"
             THEN /\ \E i \in 1..Len(NewEvents), j \in 1..Len(NewEvents) :
                        /\ i < j
                        /\ NewEvents[i] = Ev("trash", "dest", TRUE)
                        /\ NewEvents[j].op = "git" /\ NewEvents[j].arg = "worktree-prune"
                  /\ pc' = "classify" => registry'["dest"] = "none"
                  /\ Has(NewEvents, Git("worktree-prune", FALSE)) =>
                        pc' = "exited" /\ exitCode' = 1 /\ exitMessage'.kind = "prune-failed"
             ELSE ~HasGit(NewEvents, "worktree-prune")]_vars
    /\ []((entry = "runWorktreeAdd" /\ ~options.dryRun /\ pc = "create") =>
             registry["dest"] = "none")

\* C18: a dry-run call of fetchRemoteBranch for a branch that is local and
\* that the query found on origin returns {exists, localExists: true}
\* with no divergence, runs no fetch, resolves and compares no heads,
\* moves no ref, and says that divergence is not checked.
C18_DryRunSkipsFetchAndComparison ==
    [][(InFetch /\ options.dryRun /\ localRef # NoRef /\ originRef # NoRef
         /\ Has(NewEvents, Git("ls-remote", TRUE))) =>
          /\ remoteStatus' = Result("exists", TRUE, Undefined)
          /\ ~thrown'
          /\ ~HasGit(NewEvents, "fetch")
          /\ ~HasGit(NewEvents, "rev-parse-local") /\ ~HasGit(NewEvents, "rev-parse-remote")
          /\ ~HasGit(NewEvents, "rev-list") /\ ~HasGit(NewEvents, "branch-f")
          /\ Has(NewEvents, Detail("dry-run-skips-divergence-check"))
          /\ Has(NewEvents, Step("would-fetch"))
          /\ WarnCount(NewEvents) = 0
          /\ UNCHANGED <<localRef, trackingRef>>]_vars

\* C18 witness: a dry run of the classifier on a local branch that has
\* diverged from origin reported Exists.
C18_Witness ==
    /\ options.dryRun
    /\ remoteStatus = Result("exists", TRUE, Undefined)
    /\ Has(log, Detail("dry-run-skips-divergence-check"))
    /\ localRef \ originRef # {} /\ originRef \ localRef # {}

\* C19: a dry run of runWorktreeAdd changes nothing: the refs, the
\* registry, the destination and the trash stay as they are, and no move
\* to trash, prune, fetch, ref update, worktree add or remove, file copy,
\* install or app launch is run.
C19_DryRunMakesNoChanges ==
    /\ [][(entry = "runWorktreeAdd" /\ options.dryRun) =>
             UNCHANGED <<localRef, trackingRef, registry, dest, trashed>>]_vars
    /\ []((entry = "runWorktreeAdd" /\ options.dryRun) =>
             /\ ~HasOp(log, "trash")
             /\ ~HasGit(log, "worktree-prune")
             /\ ~HasGit(log, "fetch")
             /\ ~HasGit(log, "branch-f")
             /\ ~HasGit(log, "worktree-add")
             /\ ~HasGit(log, "worktree-remove")
             /\ ~Has(log, Ev("copy", "copied", TRUE))
             /\ ~HasOp(log, "setup")
             /\ ~HasOp(log, "open"))

\* C20: the session flag is false at the start; it changes only from
\* false to true, in the creation step of a real run and together with a
\* successful worktree-add; it is true exactly in the runs whose
\* worktree-add succeeded, so never in a dry run.
C20_WorktreeCreatedFlipsOnce ==
    /\ [](pc = "start" => ~worktreeCreated)
    /\ [][worktreeCreated' # worktreeCreated =>
             /\ ~worktreeCreated /\ worktreeCreated'
             /\ entry = "runWorktreeAdd" /\ pc = "create"
             /\ ~options.dryRun
             /\ NewEvents[Len(NewEvents)] = Git("worktree-add", TRUE)]_vars
    /\ [](worktreeCreated => ~options.dryRun /\ Has(log, Git("worktree-add", TRUE)))
    /\ []((entry = "runWorktreeAdd" /\ Has(log, Git("worktree-add", TRUE))) => worktreeCreated)

\* C20 witness: the flag is still set after the rollback that followed a
\* failed copy.
C20_Witness ==
    /\ worktreeCreated /\ thrown
    /\ Has(log, Ev("copy", "failed", FALSE))
    /\ Has(log, Git("worktree-remove", TRUE))

\* The process of a run of runWorktreeAdd has ended.
Ended == pc \in {"done", "exited"}

\* A SIGINT reached the process during the run.
SigintReceived == sigintPending \/ Has(log, Warn("received-sigint"))

\* C21: a run that received a SIGINT ends with status 130, with the
\* worktree removal attempted exactly when the flag worktreeCreated was
\* set, after the interrupt; and once the interrupt was handled nothing
\* of the pipeline runs any more.
C21_InterruptRollsBackAndExits130 ==
    /\ []((entry = "runWorktreeAdd" /\ Ended /\ SigintReceived) =>
             /\ exitCode = 130 /\ pc = "exited" /\ ~thrown
             /\ HasGit(log, "worktree-remove") <=> worktreeCreated
             /\ \A i \in 1..Len(log), j \in 1..Len(log) :
                   (log[i] = Warn("received-sigint")
                      /\ log[j].op = "git" /\ log[j].arg = "worktree-remove") => i < j)
    /\ [][(entry = "runWorktreeAdd" /\ handler = "handled") => UNCHANGED vars]_vars

\* C22: however many SIGINTs are delivered, the handler warns and calls
\* the cleanup callback at most once; every delivery after the first only
\* calls process.exit(130).
C22_InterruptHandlerIdempotent ==
    /\ [](/\ Count(log, "warn", "received-sigint") <= 1
          /\ Count(log, "cleanup", "onCleanup") <= 1
          /\ Count(log, "git", "worktree-remove") <= 1
          /\ Count(log, "print", "may-be-incomplete") <= 1)
    /\ [][(entry = "registerSigintHandler" /\ handler = "handled" /\ log' # log) =>
             /\ NewEvents = <<Ev("exit", "process.exit", TRUE)>>
             /\ exitCode' = 130
             /\ handler' = "handled"]_vars

\* C22 witness: three SIGINTs were delivered and the cleanup ran once.
C22_Witness ==
    /\ entry = "registerSigintHandler"
    /\ Count(log, "exit", "process.exit") = MaxSignals
    /\ Count(log, "cleanup", "onCleanup") = 1
    /\ exitCode = 130

\* C23: with a local branch, a call of fetchRemoteBranch in which the
\* ls-remote query or the fetch fails does not throw: it returns Unknown
\* with localExists true, warns, and leaves the local ref alone; the run
\* goes on to createWorktree, which reuses the local branch.
C23_FailureWithLocalIsUnknown ==
    /\ [][(InFetch /\ localRef # NoRef
            /\ (Has(NewEvents, Git("ls-remote", FALSE)) \/ Has(NewEvents, Git("fetch", FALSE)))) =>
             /\ ~thrown'
             /\ remoteStatus' = Result("unknown", TRUE, Undefined)
             /\ WarnCount(NewEvents) >= 1
             /\ localRef' = localRef
             /\ entry = "runWorktreeAdd" => pc' = "create"]_vars
    /\ []((entry = "runWorktreeAdd" /\ remoteStatus.status = "unknown"
            /\ remoteStatus.localExists /\ strategy # "none") =>
             strategy = "ReuseLocalBranch")

C25_DivergedOnlyWithLocalAndCounts ==
    /\ [](IF remoteStatus.status = "diverged"
          THEN /\ remoteStatus.localExists
               /\ Len(remoteStatus.divergence) = 2
               /\ remoteStatus.divergence[1] > 0 /\ remoteStatus.divergence[2] > 0
          ELSE remoteStatus.divergence = Undefined)
    /\ [][(InFetch /\ remoteStatus' # NoResult) =>
             /\ remoteStatus'.localExists = (localRef # NoRef)
             /\ localRef = NoRef => remoteStatus'.status # "diverged"]_vars

\* C25 witness: the classifier, called on its own, reported a divergence
\* of one commit on each side.
C25_Witness ==
    /\ entry = "fetchRemoteBranch" /\ pc = "done"
    /\ remoteStatus = Result("diverged", TRUE, <<1, 1>>)

\* C26: when the heads differ and rev-list gives no usable counts (read
\* as ahead 0, behind 0), fetchRemoteBranch returns Exists, leaves the
\* local ref alone, runs no branch command and warns once.
C26_ZeroCountsKeepLocal ==
    [][(InFetch /\ Has(NewEvents, Ev("rev-list-output", "empty", TRUE))) =>
          /\ localRef # trackingRef'
          /\ ~thrown'
          /\ remoteStatus' = Result("exists", TRUE, Undefined)
          /\ localRef' = localRef
          /\ ~HasGit(NewEvents, "branch-f")
          /\ NewEvents[Len(NewEvents)] = Warn("differs-without-counts")
          /\ WarnCount(NewEvents) = 1]_vars

\* C26 witness: a run went on to reuse a local branch that is behind
\* origin and was not fast-forwarded, after the warning.
C26_Witness ==
    /\ entry = "runWorktreeAdd"
    /\ Has(log, Warn("differs-without-counts"))
    /\ strategy = "ReuseLocalBranch" /\ worktreeCreated
    /\ localRef # trackingRef /\ localRef \subseteq trackingRef

\* runWorktreeAdd returned from the app-launch stage.
AppsStageReturned == entry = "runWorktreeAdd" /\ pc = "done" /\ ~thrown
Attempted(i) == launched[i].outcome \in {"opened", "failed"}
Outcomes(kind) == {i \in 1..Len(launched) : launched[i].outcome = kind}

\* What holds of the app-launch stage whatever the names are: one settled
\* outcome per app of the list, a warning and nothing else per failed
\* launch, and a successful run that keeps its worktree.
AppsSettledAndNotEscalated ==
    /\ Len(launched) = Len(apps)
    /\ \A i \in 1..Len(apps) : launched[i].app = apps[i]
    /\ Count(log, "open", "app") = Cardinality(Outcomes("opened") \cup Outcomes("failed"))
    /\ Count(log, "warn", "open-failed") = Cardinality(Outcomes("failed"))
    /\ exitCode = 0 /\ exitMessage = NoMessage
    /\ ~HasGit(log, "worktree-remove")
    /\ ~options.dryRun => worktreeCreated /\ dest = "new" /\ registry["dest"] = branch[1]

FirstPlace(source, a) ==
    CHOOSE k \in 1..Len(source) : source[k] = a /\ \A j \in 1..(k - 1) : source[j] # a

\* list holds each entry of source once, in the order of first occurrence.
IsCollapsed(list, source) ==
    /\ \A i, j \in 1..Len(list) : i # j => list[i] # list[j]
    /\ {list[i] : i \in 1..Len(list)} = {source[i] : i \in 1..Len(source)}
    /\ \A i, j \in 1..Len(list) :
          i < j => FirstPlace(source, list[i]) < FirstPlace(source, list[j])

\* C28: the list resolveApps returns is: the trimmed non-blank --app
\* names, whatever the environment holds, when there is one; empty when
\* --app holds the empty string and no name, whatever the environment
\* holds; the non-blank fields of the environment value, trimmed, when
\* --app is absent.  In each case a repeated name is kept once, at its
\* first place; the environment value a,,b,a gives [a, b].
C28_ResolveAppsLaunchList ==
    (entry = "resolveApps" /\ pc = "done") =>
        LET o == args.optionApps
            e == args.environmentApps
            named == IF o.given THEN TrimAndFilter(o.value) ELSE <<>>
            fields == IF e.given THEN TrimAndFilter(Split(e.value)) ELSE <<>>
        IN  /\ named # <<>> => IsCollapsed(apps, named)
            /\ (o.given /\ named = <<>> /\ Includes(o.value, <<>>)) => apps = <<>>
            /\ ~o.given => IsCollapsed(apps, fields)
            /\ (~o.given /\ e = Given(<<"a", ",", ",", "b", ",", "a">>)) =>
                  apps = <<<<"a">>, <<"b">>>>

\* C28 witness: resolveApps returned for --app "" with the environment
\* value a,,b,a.
C28_Witness ==
    /\ entry = "resolveApps" /\ pc = "done"
    /\ args.optionApps = Given(<<<<>>>>)
    /\ args.environmentApps = Given(<<"a", ",", ",", "b", ",", "a">>)
    /\ apps = <<>>

\* C29: normalizeBranchName is idempotent on every branch string made of
\* the four prefixes, in any combination, followed by a name: normalising
\* what it returned returns the same.
C29_NormalizeIdempotent ==
    (entry = "normalizeBranchName" /\ pc = "done") => normalizeBranchName(branch) = branch

\* C30: a branch argument that is empty once normalised ends the run in
\* its first step with the empty-branch message and status 1; nothing
\* else was run or logged (no handler, no trash, no git command, no
\* worktree), and no run goes past that step with an empty branch.
C30_EmptyBranchRejectedFirst ==
    /\ [](entry = "runWorktreeAdd" => branch # EmptyString)
    /\ []((entry = "runWorktreeAdd" /\ exitMessage.kind = "empty-branch") =>
             /\ pc = "exited" /\ exitCode = 1 /\ ~thrown
             /\ log = <<Ev("exit", "empty-branch", TRUE)>>
             /\ branch = <<>>
             /\ handler = "none"
             /\ ~trashed /\ ~worktreeCreated
             /\ remoteStatus = NoResult /\ strategy = "none")
    /\ [][(entry = "runWorktreeAdd" /\ exitMessage'.kind = "empty-branch") =>
             /\ pc = "start"
             /\ UNCHANGED <<localRef, trackingRef, registry, dest, trashed>>]_vars

\* C30 witness: a run over an existing destination, with --yes, ended on
\* the empty branch name.
C30_Witness ==
    /\ entry = "runWorktreeAdd" /\ exitMessage.kind = "empty-branch"
    /\ options.yes /\ ~options.dryRun /\ dest = "old" /\ originRef # NoRef
    /\ exitCode = 1

\* The branch is checked out in a registered worktree.
CheckedOut == findWorktreeByBranchName(registry, "x") # {}

\* C31: a run for a branch that is checked out in a registered worktree
\* ends in its first step with status 1: the only command it ran is the
\* listing of the worktrees, and the refs, the registry, the destination
\* and the trash are as they were.  No run adds a worktree for a branch
\* that is checked out.
C31_CheckedOutBranchRefused ==
    /\ [][(entry = "runWorktreeAdd" /\ pc = "start" /\ CheckedOut) =>
             /\ pc' = "exited" /\ exitCode' = 1
             /\ exitMessage'.kind \in {"already-checked-out", "empty-branch"}
             /\ handler' = "none"
             /\ \A i \in 1..Len(NewEvents) :
                   NewEvents[i] \in {Git("worktree-list", TRUE),
                                     Ev("exit", exitMessage'.kind, TRUE)}
             /\ UNCHANGED <<localRef, trackingRef, registry, dest, trashed,
                            worktreeCreated>>]_vars
    /\ []((entry = "runWorktreeAdd" /\ exitMessage.kind = "already-checked-out") =>
             /\ pc = "exited" /\ exitCode = 1 /\ CheckedOut
             /\ ~HasOp(log, "trash") /\ ~HasGit(log, "fetch") /\ ~HasGit(log, "branch-f")
             /\ ~HasGit(log, "worktree-add") /\ ~HasGit(log, "worktree-prune"))
    /\ [][(entry = "runWorktreeAdd" /\ Has(NewEvents, Git("worktree-add", TRUE))) =>
             ~CheckedOut]_vars

\* C31 witness: with --yes and an existing destination, a run for a branch
\* checked out in another worktree was refused.
C31_Witness ==
    /\ entry = "runWorktreeAdd" /\ exitMessage.kind = "already-checked-out"
    /\ registry["other"] = "x" /\ dest = "old" /\ options.yes /\ ~options.dryRun
    /\ exitCode = 1

\* How a run of runWorktreeAdd ended.
Cancelled == Has(log, Ev("confirm", "no", TRUE))
RefusedToPrompt ==
    \/ exitMessage.kind \in RefusalKinds
    \/ \E k \in RefusalKinds : Has(log, Warn("dry-run-" \o k))
GeneralFailure == exitMessage # NoMessage \/ thrown \/ RefusedToPrompt

\* C32: a run that ended has status 0, 1 or 130: 130 when it was
\* interrupted, 1 when it failed (exitWithMessage, a refusal to prompt, an
\* error thrown to the caller), 0 when it returned without failure or the
\* user declined at the prompt; no failure ends with status 0.
C32_ExitStatusFollowsOutcome ==
    (entry = "runWorktreeAdd" /\ Ended) =>
        /\ exitCode \in {0, 1, 130}
        /\ SigintReceived => exitCode = 130
        /\ (GeneralFailure /\ ~SigintReceived) => exitCode = 1
        /\ exitCode = 0 => ~GeneralFailure /\ (pc = "done" \/ Cancelled)
        /\ exitCode = 130 => SigintReceived
        /\ exitCode = 1 => GeneralFailure

\* The stage a position of the pipeline belongs to: 1 resolution,
\* 2 destination conflict, 3 classification, 4 creation, 5 copy, 6 setup,
\* 7 app launch, 8 ended.
StageOf(p) ==
    CASE p = "start" -> 1
      [] p \in {"conflict", "confirm", "trash"} -> 2
      [] p = "classify" -> 3
      [] p = "create" -> 4
      [] p = "copy" -> 5
      [] p = "setup" -> 6
      [] p = "apps" -> 7
      [] OTHER -> 8

\* The stages whose work a log entry can be; the messages, the rollback
\* and the exits belong to none in particular.
StagesOfEvent(e) ==
    IF e.op = "git"
    THEN CASE e.arg = "worktree-list" -> {1, 2, 3}
           [] e.arg = "worktree-prune" -> {2}
           [] e.arg \in {"ls-remote", "fetch", "rev-parse-local", "rev-parse-remote",
                         "rev-list", "branch-f"} -> {3}
           [] e.arg = "worktree-add" -> {4}
           [] OTHER -> 1..8
    ELSE CASE e.op \in {"trash", "confirm"} -> {2}
           [] e.op = "rev-list-output" -> {3}
           [] e.op = "copy" -> {5}
           [] e.op = "setup" -> {6}
           [] e.op = "open" -> {7}
           [] OTHER -> 1..8

ConflictResolved ==
    \/ dest # "old"
    \/ options.dryRun /\ Has(log, Step("would-move-to-trash"))

\* C33: each step of a run does the work of the stage the run is in and
\* leaves the run in a later stage, in the order resolution, destination
\* conflict, classification, creation, copy, setup, app launch; the refs,
\* the registry and the destination are as they were until the conflict
\* stage is over; a fetch, a ref update or a worktree-add is run only
\* once the conflict resolver let the run proceed, and a copy, a setup or
\* an app launch only once createWorktree returned.
C33_StagesInFixedOrder ==
    /\ [][entry = "runWorktreeAdd" =>
             /\ StageOf(pc') >= StageOf(pc)
             /\ StageOf(pc') = StageOf(pc) => StageOf(pc) = 2 /\ pc' # pc /\ pc' # "conflict"
             /\ \A i \in 1..Len(NewEvents) : StageOf(pc) \in StagesOfEvent(NewEvents[i])
             /\ StageOf(pc) = 1 =>
                   UNCHANGED <<localRef, trackingRef, registry, dest, trashed>>
             /\ StageOf(pc) = 2 => UNCHANGED <<localRef, trackingRef>>]_vars
    /\ []((entry = "runWorktreeAdd"
            /\ (HasGit(log, "ls-remote") \/ HasGit(log, "fetch") \/ HasGit(log, "branch-f")
                \/ HasGit(log, "worktree-add"))) =>
             ConflictResolved)
    /\ []((entry = "runWorktreeAdd"
            /\ (HasOp(log, "copy") \/ HasOp(log, "setup") \/ HasOp(log, "open"))) =>
             /\ strategy # "none"
             /\ IF options.dryRun THEN ~HasGit(log, "worktree-add")
                ELSE Has(log, Git("worktree-add", TRUE)))

\* C33 witness: a real run went through every stage: it moved the old
\* directory to the trash, fast-forwarded, created the worktree, copied,
\* set the project up and opened an app.
C33_Witness ==
    /\ entry = "runWorktreeAdd" /\ pc = "done" /\ exitCode = 0
    /\ Has(log, Ev("trash", "dest", TRUE))
    /\ HasGit(log, "branch-f")
    /\ Has(log, Git("worktree-add", TRUE))
    /\ Has(log, Ev("copy", "copied", TRUE))
    /\ Has(log, Ev("setup", "installed", TRUE))
    /\ Has(log, Ev("open", "app", TRUE))

\* The git commands of the program; none of them writes to origin.
LocalCommands ==
    {"worktree-list", "worktree-prune", "ls-remote", "fetch", "rev-parse-local",
     "rev-parse-remote", "rev-list", "branch-f", "worktree-add", "worktree-remove"}

\* C34: no step changes the branch on origin, the HEAD of the checkout the
\* command runs in, or the registration of a worktree other than the
\* destination; every git command logged is a query, a fetch or a command
\* on the local repository; an existing local ref of the branch is moved
\* only while the branch is checked out nowhere, so that no checkout is
\* moved under its working files, and the remote-tracking ref only by a
\* fetch.
C34_RemoteAndCheckoutUntouched ==
    /\ [][/\ UNCHANGED <<originRef, headRef>>
          /\ registry'["other"] = registry["other"]
          /\ localRef' # localRef =>
                \/ ~CheckedOut /\ Has(NewEvents, Git("branch-f", TRUE))
                \/ localRef = NoRef /\ Has(NewEvents, Git("worktree-add", TRUE))
          /\ trackingRef' # trackingRef =>
                Has(NewEvents, Git("fetch", TRUE)) /\ trackingRef' = originRef]_vars
    /\ [](\A i \in 1..Len(log) : log[i].op = "git" => log[i].arg \in LocalCommands)

\* C34 witness: fetchRemoteBranch found the branch strictly behind origin
\* and checked out in a worktree, and left its ref where it was.
C34_Witness ==
    /\ entry = "fetchRemoteBranch" /\ pc = "done"
    /\ Has(log, Warn("checked-out-skip-fast-forward"))
    /\ Has(log, Git("fetch", TRUE))
    /\ CheckedOut
    /\ localRef # trackingRef /\ trackingRef = originRef

\* C35: in one run git worktree remove is run at most once, whether a
\* step failed, a SIGINT was handled while a step was awaited, or both
\* happened; the step that runs it ends the run.
C35_RemovalAttemptedAtMostOnce ==
    /\ [](entry = "runWorktreeAdd" => Count(log, "git", "worktree-remove") <= 1)
    /\ [][(entry = "runWorktreeAdd" /\ HasGit(NewEvents, "worktree-remove")) =>
             /\ ~HasGit(log, "worktree-remove")
             /\ Ended'
             /\ handler' \in {"handled", "unregistered"}]_vars

\* C35 witness: a SIGINT handled while the project setup was awaited
\* removed the worktree, and the removal failed.
C35_Witness ==
    /\ entry = "runWorktreeAdd" /\ exitCode = 130
    /\ Has(log, Ev("copy", "copied", TRUE)) /\ ~HasOp(log, "setup")
    /\ Has(log, Git("worktree-remove", FALSE))
    /\ Count(log, "git", "worktree-remove") = 1

CleanupWarnings == {Warn("cleaning-up-due-to-failure"), Warn("cleaning-up-after-interruption")}
StepFailedBefore(j) ==
    \E i \in 1..(j - 1) : log[i].op \in {"copy", "setup"} /\ ~log[i].ok

\* C36: every git worktree remove in the log comes right after the
\* warning that names the destination and the reason; a removal that
\* failed is followed by a second warning and by nothing it threw: after
\* a step failure the run still ends by throwing that failure to the
\* caller (status 1, no exitWithMessage), after an interrupt with status
\* 130.  A run that ended in failure or by an interrupt with the worktree
\* it created still registered has logged both warnings.
C36_RollbackWarnsAndKeepsTheError ==
    entry = "runWorktreeAdd" =>
        /\ \A j \in 1..Len(log) :
              (log[j].op = "git" /\ log[j].arg = "worktree-remove") =>
                  /\ j > 1 /\ log[j - 1] \in CleanupWarnings
                  /\ ~log[j].ok => j < Len(log) /\ log[j + 1] = Warn("cleanup-failed")
                  /\ log[j - 1] = Warn("cleaning-up-due-to-failure") =>
                        /\ StepFailedBefore(j)
                        /\ thrown /\ exitCode = 1 /\ exitMessage = NoMessage /\ pc = "done"
                  /\ log[j - 1] = Warn("cleaning-up-after-interruption") =>
                        /\ Has(SubSeq(log, 1, j - 1), Warn("received-sigint"))
                        /\ ~thrown /\ exitCode = 130
        /\ (Ended /\ exitCode \in {1, 130} /\ worktreeCreated /\ registry["dest"] = "x") =>
              /\ \E w \in CleanupWarnings : Has(log, w)
              /\ Has(log, Git("worktree-remove", FALSE))
              /\ Has(log, Warn("cleanup-failed"))

\* C36 witness: the setup failed, the removal of the worktree failed too,
\* and the run ended by throwing with the worktree still registered.
C36_Witness ==
    /\ entry = "runWorktreeAdd" /\ thrown /\ exitCode = 1
    /\ Has(log, Ev("setup", "failed", FALSE))
    /\ Has(log, Git("worktree-remove", FALSE))
    /\ registry["dest"] = "x" /\ dest = "new"

\* C37: whenever runWorktreeAdd has returned or thrown (success, a
\* refused or declined replacement, a failure with rollback) the SIGINT
\* handler is unregistered; a run that ended with the handler registered
\* ended in process.exit, which ends the process; the handler runs only
\* while the run is under way, and nothing happens after the return:
\* the worktree a completed run created stays registered.
C37_HandlerUnregisteredOnReturn ==
    /\ [](entry = "runWorktreeAdd" =>
            /\ pc = "done" => handler = "unregistered"
            /\ (handler = "registered" /\ Ended) => pc = "exited" /\ exitCode \in {0, 1}
            /\ handler = "handled" => pc = "exited" /\ exitCode = 130)
    /\ [][(entry = "runWorktreeAdd" /\ pc = "done") => UNCHANGED vars]_vars
    /\ [][(entry = "runWorktreeAdd" /\ HasGit(NewEvents, "worktree-remove")) =>
             handler = "registered" /\ pc # "done"]_vars

\* C37 witness: a run that really created its worktree has returned with
\* status 0, the worktree is registered and the handler is unregistered.
C37_Witness ==
    /\ entry = "runWorktreeAdd" /\ pc = "done" /\ exitCode = 0 /\ ~thrown
    /\ ~options.dryRun /\ worktreeCreated
    /\ registry["dest"] = "x" /\ dest = "new"
    /\ Has(log, Git("worktree-add", TRUE))
    /\ handler = "unregistered"

\* C38: the step that runs the cleanup (git worktree remove) changes
\* nothing but the registration and the directory of the new worktree: the
\* local ref and the remote-tracking ref keep their values, so a
\* fast-forward is not taken back, and the directory that was moved to the
\* trash stays there, the old directory is not back at the destination.
\* No step of a run moves the local ref backwards or takes the directory
\* out of the trash.
C38_RollbackUndoesOnlyTheWorktree ==
    /\ [][(entry = "runWorktreeAdd" /\ HasGit(NewEvents, "worktree-remove")) =>
             /\ UNCHANGED <<localRef, trackingRef, originRef, headRef, trashed, branch>>
             /\ registry'["other"] = registry["other"]
             /\ dest' # "old"
             /\ Has(NewEvents, Git("worktree-remove", TRUE)) =>
                    registry'["dest"] = "none" /\ dest' = "absent"
             /\ Has(NewEvents, Git("worktree-remove", FALSE)) =>
                    UNCHANGED <<registry, dest>>]_vars
    /\ [][entry = "runWorktreeAdd" =>
             /\ localRef \subseteq localRef'
             /\ trashed => trashed' /\ dest' # "old"]_vars

\* C38 witness: the old directory was moved to the trash, the branch was
\* fast-forwarded, the worktree was created, a later step failed and the
\* cleanup removed the worktree: the ref is still at the fast-forwarded
\* position and the directory is still in the trash.
C38_Witness ==
    /\ entry = "runWorktreeAdd" /\ Ended /\ exitCode \in {1, 130}
    /\ Has(log, Ev("trash", "dest", TRUE)) /\ trashed
    /\ Has(log, Git("branch-f", TRUE))
    /\ Has(log, Git("worktree-remove", TRUE))
    /\ localRef = originRef /\ localRef # NoRef
    /\ registry["dest"] = "none" /\ dest = "absent"

(***************************************************************************)
(* Runs of runWorktreeAdd under fairness                                   *)
(***************************************************************************)

\* The runs of the command alone.  Every step of the pipeline is the
\* return of an awaited command, prompt or launch, or of a synchronous
\* call, and the handler of a pending SIGINT runs when the event loop
\* turns: a run in which some step is possible takes one.  A SIGINT that
\* is never sent is not required.  The local branch starts missing, at the
\* commit HEAD is at, or with every commit: against the refs of origin
\* that is every relation the classifier tells apart (missing, equal,
\* behind, ahead, diverged).
LocalAtStart == {NoRef, HeadAtStart, Commits}
RunInit == Init /\ entry = "runWorktreeAdd" /\ localRef \in LocalAtStart

RunNext ==
    \/ ResolveContext
    \/ HandleExistingDirectory
    \/ Confirm
    \/ MoveToTrash
    \/ Classify
    \/ CreateWorktree
    \/ CopyUntrackedFiles
    \/ SetupProject
    \/ OpenWorktreeApps
    \/ Sigint

RunSpec == RunInit /\ [][RunNext]_vars /\ WF_vars(RunNext)

\* The four ways a run ends.
Completed == pc = "done" /\ ~thrown /\ handler # "handled"
CancelledByUser == pc = "exited" /\ Cancelled /\ exitMessage = NoMessage /\ handler # "handled"
Failed == (thrown \/ exitMessage # NoMessage) /\ handler # "handled"
Interrupted == handler = "handled"
RunOutcomes == <<Completed, CancelledByUser, Failed, Interrupted>>

PcRank(p) ==
    CASE p = "start" -> 0
      [] p = "conflict" -> 1
      [] p = "confirm" -> 2
      [] p = "trash" -> 3
      [] p = "classify" -> 4
      [] p = "create" -> 5
      [] p = "copy" -> 6
      [] p = "setup" -> 7
      [] p = "apps" -> 8
      [] OTHER -> 9

OnceOnly == {Git("ls-remote", TRUE), Git("ls-remote", FALSE), Git("fetch", TRUE),
             Git("fetch", FALSE), Git("branch-f", TRUE), Git("worktree-add", TRUE),
             Git("worktree-add", FALSE), Ev("trash", "dest", TRUE), Ev("trash", "dest", FALSE),
             Ev("confirm", "yes", TRUE), Ev("confirm", "no", TRUE)}

\* C39: a run in which every command, prompt and launch returns ends, and
\* a run that ended has exactly one of the outcomes completed, cancelled
\* by the user, failed, interrupted; before that it has none.  Every step
\* moves the run to a later point of the pipeline, so no stage is entered
\* twice, and the prompt, the move to trash, the remote query, the fetch,
\* the fast-forward and git worktree add are each run at most once.
C39_EveryRunEndsInOneOutcome ==
    /\ <>Ended
    /\ [](Ended => Cardinality({i \in 1..4 : RunOutcomes[i]}) = 1)
    /\ [](~Ended => \A i \in 1..4 : ~RunOutcomes[i])
    /\ [][PcRank(pc') > PcRank(pc)]_vars
    /\ [](\A e \in OnceOnly : Cardinality({i \in 1..Len(log) : log[i] = e}) <= 1)

\* C39 witness: a run went through the prompt, the move to trash and every
\* later stage, and returned.
C39_Witness ==
    /\ Completed /\ exitCode = 0
    /\ Has(log, Ev("confirm", "yes", TRUE)) /\ Has(log, Ev("trash", "dest", TRUE))
    /\ Has(log, Git("worktree-add", TRUE))
    /\ HasOp(log, "copy") /\ HasOp(log, "setup")
    /\ launched # <<>>

====
